---- MODULE Spec2Model ----
(***************************************************************************)
(* A model of the ScubaGoggles configuration UI core:                      *)
(*   - ConfigGenerator (clean_config_dict, generate_yaml_config, ...)      *)
(*   - ConfigLoader    (load_config_file, merge_configs)                   *)
(*   - ConfigValidator (field validators, validate_complete_config)        *)
(*                                                                         *)
(* Python values are modelled as records of one uniform shape              *)
(*   [t |-> type tag, s |-> scalar text, l |-> list items, m |-> entries]  *)
(* so that any two values can be compared.  A dict is the sequence of its  *)
(* entries [k |-> key, v |-> value] in insertion order, keys distinct.     *)
(***************************************************************************)
EXTENDS Integers, Sequences, FiniteSets, TLC

VARIABLES
    \* ---- ConfigGenerator / load round trip
    config_dict,    \* st.session_state.config_data, or any raw mapping handed in
    cleaned,        \* last result of clean_config_dict
    recleaned,      \* result of clean_config_dict applied to `cleaned`
    yaml_text,      \* last text produced by generate_yaml_config
    config_file,    \* the file save_config_file wrote
    loaded,         \* last result of load_config_file
    gpc             \* which generator operations have run on config_dict

genVars == <<config_dict, cleaned, recleaned, yaml_text, config_file, loaded, gpc>>

VARIABLES
    \* ---- ConfigLoader.merge_configs, on a heap of dict objects
    heap,             \* the dict objects, by address
    heap_before,      \* the heap when merge_configs was called
    base_config,      \* address of the base mapping (0: none yet)
    override_config,  \* address of the override mapping
    merged,           \* address of the mapping merge_configs returned
    mpc

mergeVars == <<heap, heap_before, base_config, override_config, merged, mpc>>

VARIABLES
    \* ---- ConfigValidator
    vconfig,        \* the document handed to the validator
    out_dir,        \* the file system at the output path
    vresult,        \* what the last validator call returned (or that it raised)
    vpc

valVars == <<vconfig, out_dir, vresult, vpc>>

VARIABLES
    \* ---- ScubaConfigApp.extract_policies_from_markdown
    md_lines,              \* the lines of the content the loop has gone through
    in_policies_section,
    current_policy_id,     \* <<>> for None
    policies               \* the dict being built: entries [k |-> id, v |-> description]

scanVars == <<md_lines, in_policies_section, current_policy_id, policies>>

VARIABLES
    \* ---- ScubaConfigApp: the session model and the run tab
    config_data,    \* st.session_state.config_data
    run_tab,        \* what the last click on the run button did
    widget_state,   \* st.session_state: the keys of the widgets
    last_op         \* the handler that ran last, and the document it imported

appVars == <<config_data, run_tab, widget_state, last_op>>

VARIABLES
    \* ---- ScubaRunner: one call of run_assessment, the child, the two reader threads
    rpc,            \* where run_assessment stands
    tmp_config,     \* the temporary file: whether it exists, whether config_path names it
    process,        \* the child: its state, exit code and the lines it has yet to write
    pipes,          \* per stream, the lines written and not yet read, and all lines written
    queues,         \* self.output_queue and self.error_queue
    progress,       \* the callback, current_step and the calls the callback received
    outcome         \* what run_assessment returned; what get_output / get_errors returned

runVars == <<rpc, tmp_config, process, pipes, queues, progress, outcome>>

vars == <<genVars, mergeVars, valVars, scanVars, appVars, runVars>>

\* what the actions of one component leave alone
notGen == <<mergeVars, valVars, scanVars, appVars, runVars>>
notMerge == <<genVars, valVars, scanVars, appVars, runVars>>
notVal == <<genVars, mergeVars, scanVars, appVars, runVars>>
notScan == <<genVars, mergeVars, valVars, appVars, runVars>>
notApp == <<genVars, mergeVars, valVars, scanVars, runVars>>
notRun == <<genVars, mergeVars, valVars, scanVars, appVars>>

(***************************************************************************)
(* Python values                                                           *)
(***************************************************************************)
Scalar(t, s) == [t |-> t, s |-> s, l |-> <<>>, m |-> <<>>]
None    == Scalar("none", "null")
Str(s)  == Scalar("str", s)
IntV(s) == Scalar("int", s)
Bool(b) == Scalar("bool", IF b THEN "true" ELSE "false")
List(l) == [t |-> "list", s |-> "", l |-> l, m |-> <<>>]
Map(m)  == [t |-> "map", s |-> "", l |-> <<>>, m |-> m]
Entry(k, v) == [k |-> k, v |-> v]

\* A value the operation did not produce (distinct from Python's None).
Unset == Scalar("unset", "")

\* bool(value): Python truthiness
Truthy(v) ==
    CASE v.t = "none" -> FALSE
      [] v.t = "unset" -> FALSE
      [] v.t = "str"  -> v.s # ""
      [] v.t = "int"  -> v.s # "0"
      [] v.t = "bool" -> v.s = "true"
      [] v.t = "list" -> v.l # <<>>
      [] v.t = "map"  -> v.m # <<>>

\* dict operations on entry sequences
\* x in seq
InSeq(x, seq) == \E i \in 1..Len(seq) : seq[i] = x
Keys(d) == {d[i].k : i \in 1..Len(d)}
Has(d, k) == k \in Keys(d)
IndexOf(d, k) == CHOOSE i \in 1..Len(d) : d[i].k = k
Get(d, k) == d[IndexOf(d, k)].v
\* d.get(k, default)
GetOr(d, k, default) == IF Has(d, k) THEN Get(d, k) ELSE default
\* d[k] = v : an existing key keeps its position, a new key is appended
DictSet(d, k, v) ==
    IF Has(d, k)
    THEN [i \in 1..Len(d) |-> IF d[i].k = k THEN Entry(k, v) ELSE d[i]]
    ELSE Append(d, Entry(k, v))

\* Python == on values: dicts compare without regard to key order,
\* lists element by element.
RECURSIVE DeepEq(_, _)
DeepEq(a, b) ==
    /\ a.t = b.t
    /\ a.s = b.s
    /\ Len(a.l) = Len(b.l)
    /\ \A i \in 1..Len(a.l) : DeepEq(a.l[i], b.l[i])
    /\ Len(a.m) = Len(b.m)
    /\ Keys(a.m) = Keys(b.m)
    /\ \A k \in Keys(a.m) : DeepEq(Get(a.m, k), Get(b.m, k))

(***************************************************************************)
(* ConfigGenerator.clean_config_dict                                       *)
(***************************************************************************)
\* the for loop of clean_config_dict from item i on; acc is `cleaned`
RECURSIVE clean_loop(_, _, _)
clean_loop(items, i, acc) ==
    IF i > Len(items) THEN acc
    ELSE LET key == items[i].k
             value == items[i].v
         IN  IF value = None \/ value = Str("") \/ value = List(<<>>)
             THEN clean_loop(items, i + 1, acc)
             ELSE IF key = "outputpath" /\ value \in {Str("./"), Str(".")}
             THEN clean_loop(items, i + 1, acc)
             ELSE IF key = "darkmode" /\ value = Str("false")
             THEN clean_loop(items, i + 1, acc)
             ELSE clean_loop(items, i + 1, DictSet(acc, key, value))

\* mutant: `if not value: continue` instead of the three comparisons
RECURSIVE clean_loop_falsy(_, _, _)
clean_loop_falsy(items, i, acc) ==
    IF i > Len(items) THEN acc
    ELSE LET key == items[i].k
             value == items[i].v
         IN  IF ~Truthy(value)
             THEN clean_loop_falsy(items, i + 1, acc)
             ELSE IF key = "outputpath" /\ value \in {Str("./"), Str(".")}
             THEN clean_loop_falsy(items, i + 1, acc)
             ELSE IF key = "darkmode" /\ value = Str("false")
             THEN clean_loop_falsy(items, i + 1, acc)
             ELSE clean_loop_falsy(items, i + 1, DictSet(acc, key, value))

\* mutant: entries deleted from the list being iterated, so the entry after
\* a deleted one is never looked at
RECURSIVE clean_loop_inplace(_, _, _)
clean_loop_inplace(items, i, acc) ==
    IF i > Len(items) THEN acc
    ELSE LET key == items[i].k
             value == items[i].v
             skip == \/ value = None \/ value = Str("") \/ value = List(<<>>)
                     \/ key = "outputpath" /\ value \in {Str("./"), Str(".")}
                     \/ key = "darkmode" /\ value = Str("false")
         IN  IF skip
             THEN IF i + 1 <= Len(items)
                  THEN clean_loop_inplace(items, i + 2,
                           DictSet(acc, items[i+1].k, items[i+1].v))
                  ELSE acc
             ELSE clean_loop_inplace(items, i + 1, DictSet(acc, key, value))

clean_config_dict_falsy(d) == clean_loop_falsy(d, 1, <<>>)
clean_config_dict_inplace(d) == clean_loop_inplace(d, 1, <<>>)

clean_config_dict(d) == clean_loop(d, 1, <<>>)

(***************************************************************************)
(* YAML text.  A text is the sequence of its lines; a line is a record     *)
(*   [ind, kind, key, style, text]                                         *)
(* kind "key_scalar":  key: text        (style plain, single-quoted, flow)  *)
(* kind "key_open":    key:             (a block follows)                   *)
(* kind "item":        - text                                               *)
(* kind "flow_doc":    {}               (a whole document in flow style)    *)
(* kind "comment" / "blank"                                                 *)
(***************************************************************************)
Line(ind, kind, key, style, text) ==
    [ind |-> ind, kind |-> kind, key |-> key, style |-> style, text |-> text]
CommentLine(text) == Line(0, "comment", "", "plain", text)
BlankLine == Line(0, "blank", "", "plain", "")

\* PyYAML's implicit resolver (YAML 1.1) on the text of a plain scalar,
\* for the texts the model uses
BoolTrueTexts  == {"true", "True", "yes", "on"}
BoolFalseTexts == {"false", "False", "no", "off"}
NullTexts == {"null", "~", ""}
IntTexts  == {"0", "1", "123", "12345"}
DateTexts == {"2025-01-01", "2025-12-31"}
\* texts the scanner cannot read as one plain scalar (": " inside, a leading
\* indicator character)
PlainUnsafeTexts == {"a: b", "[x", "@x"}

Resolve(text) ==
    CASE text \in BoolTrueTexts \cup BoolFalseTexts -> "bool"
      [] text \in NullTexts -> "none"
      [] text \in IntTexts -> "int"
      [] text \in DateTexts -> "date"
      [] OTHER -> "str"

ParseError == Scalar("error", "")

\* SafeConstructor on one scalar token
Construct(style, text) ==
    CASE style = "single" -> Str(text)
      [] style = "flow" -> IF text = "{}" THEN Map(<<>>)
                           ELSE IF text = "[]" THEN List(<<>>)
                           ELSE ParseError
      [] OTHER ->
           IF text \in PlainUnsafeTexts THEN ParseError
           ELSE CASE Resolve(text) = "bool" -> Bool(text \in BoolTrueTexts)
                  [] Resolve(text) = "none" -> None
                  [] Resolve(text) = "int"  -> IntV(text)
                  [] Resolve(text) = "date" -> Scalar("date", text)
                  [] OTHER -> Str(text)

\* SafeRepresenter + Emitter on one scalar: the text and the style chosen.
\* A str is written plain only if a plain scalar with that text would be
\* read back as a str; otherwise it is single-quoted.
ScalarText(v) == IF v.t = "none" THEN "null" ELSE v.s
\* mutant: every scalar written plain
ScalarStylePlain(v) == "plain"
ScalarStyle(v) ==
    IF v.t = "str" /\ (Resolve(v.s) # "str" \/ v.s \in PlainUnsafeTexts)
    THEN "single" ELSE "plain"

RECURSIVE DumpMap(_, _)
DumpEntry(e, ind) ==
    CASE e.v.t = "map" ->
           IF e.v.m = <<>> THEN <<Line(ind, "key_scalar", e.k, "flow", "{}")>>
           ELSE <<Line(ind, "key_open", e.k, "plain", "")>> \o DumpMap(e.v.m, ind + 1)
      [] e.v.t = "list" ->
           IF e.v.l = <<>> THEN <<Line(ind, "key_scalar", e.k, "flow", "[]")>>
           ELSE <<Line(ind, "key_open", e.k, "plain", "")>> \o
                [i \in 1..Len(e.v.l) |->
                    Line(ind, "item", "", ScalarStyle(e.v.l[i]), ScalarText(e.v.l[i]))]
      [] OTHER -> <<Line(ind, "key_scalar", e.k, ScalarStyle(e.v), ScalarText(e.v))>>
DumpMap(m, ind) ==
    IF m = <<>> THEN <<>> ELSE DumpEntry(Head(m), ind) \o DumpMap(Tail(m), ind)

\* yaml.dump(d, default_flow_style=False, sort_keys=False)
yaml_dump(d) ==
    IF d = <<>> THEN <<Line(0, "flow_doc", "", "flow", "{}")>> ELSE DumpMap(d, 0)

\* the last line of the block that the `key:` line i opens
RECURSIVE BlockEnd(_, _, _)
BlockEnd(lines, i, j) ==
    IF j + 1 <= Len(lines) /\
       (lines[j+1].ind > lines[i].ind \/
        (lines[j+1].kind = "item" /\ lines[j+1].ind = lines[i].ind))
    THEN BlockEnd(lines, i, j + 1) ELSE j

RECURSIVE parse_map(_, _, _, _)
RECURSIVE parse_block(_)
parse_map(lines, ind, i, acc) ==
    IF i > Len(lines) THEN Map(acc)
    ELSE LET ln == lines[i] IN
         IF ln.ind # ind \/ ln.kind \notin {"key_scalar", "key_open"} THEN ParseError
         ELSE IF ln.kind = "key_scalar"
         THEN LET v == Construct(ln.style, ln.text) IN
              IF v = ParseError THEN ParseError
              ELSE parse_map(lines, ind, i + 1, DictSet(acc, ln.key, v))
         ELSE LET j == BlockEnd(lines, i, i)
                  v == parse_block(SubSeq(lines, i + 1, j)) IN
              IF v = ParseError THEN ParseError
              ELSE parse_map(lines, ind, j + 1, DictSet(acc, ln.key, v))
parse_block(lines) ==
    IF lines = <<>> THEN None
    ELSE IF \A i \in 1..Len(lines) : lines[i].kind = "item"
    THEN LET items == [i \in 1..Len(lines) |-> Construct(lines[i].style, lines[i].text)] IN
         IF \E i \in 1..Len(items) : items[i] = ParseError THEN ParseError
         ELSE List(items)
    ELSE parse_map(lines, lines[1].ind, 1, <<>>)

\* yaml.safe_load(content); ParseError stands for a raised yaml.YAMLError.
\* A document is a block mapping, a block sequence, or one line: a flow
\* collection ("flow_doc"), a scalar ("scalar_doc"), or JSON text that has a
\* tab between its tokens ("json_doc"), which the YAML scanner rejects.
yaml_safe_load(content) ==
    LET c == SelectSeq(content, LAMBDA ln : ln.kind \notin {"comment", "blank"}) IN
    IF c = <<>> THEN None
    ELSE IF \E i \in 1..Len(c) : c[i].kind = "json_doc" THEN ParseError
    ELSE IF Len(c) = 1 /\ c[1].kind \in {"flow_doc", "scalar_doc"}
    THEN Construct(c[1].style, c[1].text)
    ELSE IF \A i \in 1..Len(c) : c[i].kind = "item" /\ c[i].ind = 0 THEN parse_block(c)
    ELSE parse_map(c, 0, 1, <<>>)

\* the JSON texts of this model that have a tab between their tokens
JsonTabObject == "{\t\"a\": 1}"
JsonTabArray == "[\t1]"

\* json.loads(content); ParseError stands for a raised json.JSONDecodeError.
\* Of the texts of this model only the flow document {} and the json_doc
\* lines are JSON; a comment line is not JSON.
json_loads(content) ==
    LET c == SelectSeq(content, LAMBDA ln : ln.kind # "blank") IN
    IF Len(c) = 1 /\ c[1].kind = "flow_doc" /\ c[1].text = "{}" THEN Map(<<>>)
    ELSE IF Len(c) = 1 /\ c[1].kind = "json_doc" /\ c[1].text = JsonTabObject
    THEN Map(<<Entry("a", IntV("1"))>>)
    ELSE IF Len(c) = 1 /\ c[1].kind = "json_doc" /\ c[1].text = JsonTabArray
    THEN List(<<IntV("1")>>)
    ELSE ParseError

\* ConfigGenerator.generate_yaml_config with include_comments = False
generate_yaml_config(d) == yaml_dump(clean_config_dict(d))

\* a file: does it exist, can it be read, and its content
File(exists, readable, content) ==
    [exists |-> exists, readable |-> readable, content |-> content]
NoFile == File(FALSE, FALSE, <<>>)

\* ConfigLoader.load_config_file
load_config_file(f) ==
    IF ~f.exists THEN None
    ELSE IF ~f.readable THEN None
    ELSE LET y == yaml_safe_load(f.content) IN
         IF y # ParseError THEN y
         ELSE LET j == json_loads(f.content) IN
              IF j # ParseError THEN j ELSE None

(***************************************************************************)
(* ConfigLoader.merge_configs.  Dicts are objects: the heap maps an        *)
(* address to the entries of the dict stored there, and a dict-valued      *)
(* entry holds a reference to the nested dict, so that copying a dict      *)
(* (dict.copy) shares the nested dicts, as in Python.                      *)
(***************************************************************************)
AddrNames ==
    << "o1", "o2", "o3", "o4", "o5", "o6", "o7", "o8", "o9", "o10",
       "o11", "o12", "o13", "o14", "o15", "o16", "o17", "o18", "o19", "o20",
       "o21", "o22", "o23", "o24", "o25", "o26", "o27", "o28", "o29", "o30" >>
Ref(a) == Scalar("ref", AddrNames[a])
AddrOf(v) == CHOOSE a \in 1..Len(AddrNames) : AddrNames[a] = v.s
\* isinstance(value, dict)
IsDict(v) == v.t = "ref"

\* store a mapping (given as a value tree) in the heap, nested dicts first
RECURSIVE alloc_entries(_, _, _, _)
alloc_entries(h, entries, i, acc) ==
    IF i > Len(entries) THEN [h |-> Append(h, acc), a |-> Len(h) + 1]
    ELSE IF entries[i].v.t = "map"
    THEN LET r == alloc_entries(h, entries[i].v.m, 1, <<>>) IN
         alloc_entries(r.h, entries, i + 1, Append(acc, Entry(entries[i].k, Ref(r.a))))
    ELSE alloc_entries(h, entries, i + 1, Append(acc, entries[i]))
Alloc(h, entries) == alloc_entries(h, entries, 1, <<>>)

\* the mapping stored at address a, as a value tree
RECURSIVE Deref(_, _)
Deref(h, a) ==
    Map([i \in 1..Len(h[a]) |->
            IF IsDict(h[a][i].v)
            THEN Entry(h[a][i].k, Deref(h, AddrOf(h[a][i].v)))
            ELSE h[a][i]])

RECURSIVE merge_configs(_, _, _)
RECURSIVE merge_loop(_, _, _, _)
\* the for loop of merge_configs from item i of the override on;
\* m is the address of `merged`
merge_loop(h, m, o, i) ==
    IF i > Len(h[o]) THEN [h |-> h, a |-> m]
    ELSE LET key == h[o][i].k
             value == h[o][i].v
         IN  IF IsDict(value) /\ Has(h[m], key) /\ IsDict(Get(h[m], key))
             THEN LET r == merge_configs(h, AddrOf(Get(h[m], key)), AddrOf(value)) IN
                  merge_loop([r.h EXCEPT ![m] = DictSet(@, key, Ref(r.a))], m, o, i + 1)
             ELSE merge_loop([h EXCEPT ![m] = DictSet(@, key, value)], m, o, i + 1)

\* mutant: merged = base_config, without .copy()
merge_configs_nocopy(h, b, o) == merge_loop(h, b, o, 1)

\* mutant: dict.update semantics, nested mappings replaced instead of merged
RECURSIVE update_loop(_, _, _, _)
update_loop(h, m, o, i) ==
    IF i > Len(h[o]) THEN [h |-> h, a |-> m]
    ELSE update_loop([h EXCEPT ![m] = DictSet(@, h[o][i].k, h[o][i].v)], m, o, i + 1)
merge_configs_shallow(h, b, o) == update_loop(Append(h, h[b]), Len(h) + 1, o, 1)

\* merge_configs(base_config, override_config): the new heap and the address
\* of the returned mapping
merge_configs(h, b, o) == merge_loop(Append(h, h[b]), Len(h) + 1, o, 1)

\* the most entries of a mapping handed to merge_configs
MaxMergeEntries == 2

PolicyA == Map(<<Entry("A", Map(<<Entry("rationale", Str("x"))>>))>>)
PolicyB == Map(<<Entry("B", Map(<<Entry("rationale", Str("y"))>>))>>)
PolicyA2 == Map(<<Entry("A", Map(<<Entry("expiration", Str("2025-01-01"))>>))>>)
MergeKeys == {"omitpolicy", "baselines"}
MergeValues ==
    { Str("example.com"), List(<<Str("gmail")>>), List(<<Str("drive"), Str("meet")>>),
      PolicyA, PolicyB, PolicyA2 }

MergeIdle ==
    /\ heap = <<>>
    /\ heap_before = <<>>
    /\ base_config = 0
    /\ override_config = 0
    /\ merged = 0
    /\ mpc = "idle"

\* the base mapping: the empty dict, to which BaseSet adds entries
MergeInit ==
    /\ heap = <<<<>>, <<>>>>
    /\ heap_before = <<>>
    /\ base_config = 1
    /\ override_config = 2
    /\ merged = 0
    /\ mpc = "build"

\* config[k] = v on the mapping at address a, v given as a value tree
SetIn(a, k, v) ==
    /\ mpc = "build"
    /\ Len(heap[a]) < MaxMergeEntries
    /\ ~Has(heap[a], k)
    /\ IF v.t = "map"
       THEN LET r == Alloc(heap, v.m) IN
            heap' = [r.h EXCEPT ![a] = DictSet(@, k, Ref(r.a))]
       ELSE heap' = [heap EXCEPT ![a] = DictSet(@, k, v)]
    /\ UNCHANGED <<heap_before, base_config, override_config, merged, mpc>>
    /\ UNCHANGED notMerge

\* the base mapping is filled first, then the override
BaseSet(k, v) == heap[override_config] = <<>> /\ SetIn(base_config, k, v)
OverrideSet(k, v) == SetIn(override_config, k, v)

MergeConfigs ==
    /\ mpc = "build"
    /\ LET r == merge_configs(heap, base_config, override_config) IN
       /\ heap' = r.h
       /\ merged' = r.a
    /\ heap_before' = heap
    /\ mpc' = "merged"
    /\ UNCHANGED <<base_config, override_config>>
    /\ UNCHANGED notMerge

MergeNext ==
    \/ \E k \in MergeKeys, v \in MergeValues : BaseSet(k, v)
    \/ \E k \in MergeKeys, v \in MergeValues : OverrideSet(k, v)
    \/ MergeConfigs

GenIdle ==
    /\ config_dict = <<>>
    /\ cleaned = <<>>
    /\ recleaned = <<>>
    /\ yaml_text = <<>>
    /\ config_file = NoFile
    /\ loaded = Unset
    /\ gpc = "idle"

(***************************************************************************)
(* Generator inputs and actions                                            *)
(***************************************************************************)
\* the most entries of a raw mapping built by AddEntry
MaxEntries == 2

\* ScubaConfigApp.__init__: the session's default model
DefaultConfigData ==
    << Entry("organization", Str("")),
       Entry("orgname", Str("")),
       Entry("orgunitname", Str("")),
       Entry("subjectemail", Str("")),
       Entry("customerid", Str("")),
       Entry("description", Str("")),
       Entry("environment", Str("google_workspace")),
       Entry("baselines", List(<<>>)),
       Entry("credentials", Str("")),
       Entry("outputpath", Str("./")),
       Entry("darkmode", Bool(FALSE)),
       Entry("quiet", Bool(FALSE)),
       Entry("omitpolicy", Map(<<>>)),
       Entry("annotatepolicy", Map(<<>>)),
       Entry("breakglassaccounts", List(<<>>)),
       Entry("ui_dark_mode", Bool(FALSE)) >>

OmitEntry == Map(<<Entry("rationale", Str("x")), Entry("expiration", Str("2025-01-01"))>>)

GenKeys == {"outputpath", "darkmode", "quiet", "omitpolicy"}
GenValues ==
    { None, Str(""), Str("./"), Str("."), Str("false"), Str("true"), Str("reports"),
      Bool(FALSE), Bool(TRUE),
      List(<<>>), List(<<Str("gmail"), Str("drive")>>),
      Map(<<>>), Map(<<Entry("GWS.A", OmitEntry)>>) }

GenInit ==
    /\ config_dict \in {<<>>, DefaultConfigData}
    /\ cleaned = <<>>
    /\ recleaned = <<>>
    /\ yaml_text = <<>>
    /\ config_file = NoFile
    /\ loaded = Unset
    /\ gpc = "edit"

\* a field of the raw mapping is set (config_data[k] = v)
AddEntry(k, v) ==
    /\ gpc = "edit"
    /\ Len(config_dict) < MaxEntries
    /\ ~Has(config_dict, k)
    /\ config_dict' = DictSet(config_dict, k, v)
    /\ UNCHANGED <<cleaned, recleaned, yaml_text, config_file, loaded, gpc>>
    /\ UNCHANGED notGen

CleanConfig ==
    /\ gpc = "edit"
    /\ cleaned' = clean_config_dict(config_dict)
    /\ gpc' = "cleaned"
    /\ UNCHANGED <<config_dict, recleaned, yaml_text, config_file, loaded>>
    /\ UNCHANGED notGen

CleanAgain ==
    /\ gpc = "cleaned"
    /\ recleaned' = clean_config_dict(cleaned)
    /\ gpc' = "recleaned"
    /\ UNCHANGED <<config_dict, cleaned, yaml_text, config_file, loaded>>
    /\ UNCHANGED notGen

GenerateYaml ==
    /\ gpc = "recleaned"
    /\ yaml_text' = generate_yaml_config(config_dict)
    /\ gpc' = "generated"
    /\ UNCHANGED <<config_dict, cleaned, recleaned, config_file, loaded>>
    /\ UNCHANGED notGen

\* ConfigGenerator.save_config_file
SaveConfigFile ==
    /\ gpc = "generated"
    /\ config_file' = File(TRUE, TRUE, yaml_text)
    /\ gpc' = "saved"
    /\ UNCHANGED <<config_dict, cleaned, recleaned, yaml_text, loaded>>
    /\ UNCHANGED notGen

LoadConfigFile ==
    /\ gpc = "saved"
    /\ loaded' = load_config_file(config_file)
    /\ gpc' = "loaded"
    /\ UNCHANGED <<config_dict, cleaned, recleaned, yaml_text, config_file>>
    /\ UNCHANGED notGen

GenNext ==
    \/ \E k \in GenKeys, v \in GenValues : AddEntry(k, v)
    \/ CleanConfig
    \/ CleanAgain
    \/ GenerateYaml
    \/ SaveConfigFile
    \/ LoadConfigFile

(***************************************************************************)
(* ConfigLoader.load_config_file on a file of any content                  *)
(***************************************************************************)
\* the most lines of a stored file
MaxFileLines == 3

\* lines of a block document
BlockLines ==
    { Line(0, "key_scalar", "orgname", "plain", "Example"),
      Line(0, "key_scalar", "darkmode", "plain", "true"),
      Line(0, "key_open", "baselines", "plain", ""),
      Line(0, "item", "", "plain", "gmail"),
      Line(0, "key_scalar", "tenant", "plain", "[x"),
      CommentLine("ScubaGoggles Configuration File") }
\* documents of one line
DocLines ==
    { Line(0, "flow_doc", "", "flow", "{}"),
      Line(0, "flow_doc", "", "flow", "[]"),
      Line(0, "scalar_doc", "", "plain", "hello"),
      Line(0, "scalar_doc", "", "plain", "null"),
      Line(0, "json_doc", "", "flow", JsonTabObject),
      Line(0, "json_doc", "", "flow", JsonTabArray) }

LoadInit ==
    /\ config_dict = <<>>
    /\ cleaned = <<>>
    /\ recleaned = <<>>
    /\ yaml_text = <<>>
    /\ config_file \in {NoFile, File(TRUE, FALSE, <<>>), File(TRUE, TRUE, <<>>)}
    /\ loaded = Unset
    /\ gpc = "stored"

\* one more line in the stored file; a one-line document is the whole file
WriteLine(ln) ==
    /\ gpc = "stored"
    /\ config_file.exists /\ config_file.readable
    /\ Len(config_file.content) < MaxFileLines
    /\ \A i \in 1..Len(config_file.content) : config_file.content[i] \notin DocLines
    /\ ln \in DocLines => config_file.content = <<>>
    /\ config_file' = [config_file EXCEPT !.content = Append(@, ln)]
    /\ UNCHANGED <<config_dict, cleaned, recleaned, yaml_text, loaded, gpc>>
    /\ UNCHANGED notGen

LoadStoredFile ==
    /\ gpc = "stored"
    /\ loaded' = load_config_file(config_file)
    /\ gpc' = "read"
    /\ UNCHANGED <<config_dict, cleaned, recleaned, yaml_text, config_file>>
    /\ UNCHANGED notGen

LoadNext ==
    \/ \E ln \in BlockLines \cup DocLines : WriteLine(ln)
    \/ LoadStoredFile

(***************************************************************************)
(* ConfigValidator: strings read character by character                    *)
(***************************************************************************)
Tok50 == "ya29.A1b2C3d4E5f6G7h8I9j0K1l2M3n4O5p6Q7r8S9t0U_-vx"
Tok49 == "ya29.A1b2C3d4E5f6G7h8I9j0K1l2M3n4O5p6Q7r8S9t0U_-v"
Tok50Bang == "ya29.A1b2C3d4E5f6G7h8I9j0K1l2M3n4O5p6Q7r8S9t0U_-v!"
Tok50Newline == "ya29.A1b2C3d4E5f6G7h8I9j0K1l2M3n4O5p6Q7r8S9t0U_-vx\n"
UuidSample == "12345678-1234-1234-1234-123456789012"
UuidSample2 == "87654321-4321-4321-4321-210987654321"
UuidV1 == "123E4567-e89b-12d3-A456-426614174000"
UuidV1Padded == " 123e4567-e89b-12d3-a456-426614174000 "
UuidV6 == "123e4567-e89b-62d3-a456-426614174000"
UuidNonHex == "123e4567-e89b-12d3-a456-42661417400g"

\* the characters of the strings whose validators read them character by character
Chars(s) ==
    CASE s = "ya29.A1b2C3d4E5f6G7h8I9j0K1l2M3n4O5p6Q7r8S9t0U_-vx" ->
           <<"y", "a", "2", "9", ".", "A", "1", "b", "2", "C", "3", "d", "4", "E", "5", "f",
           "6", "G", "7", "h", "8", "I", "9", "j", "0", "K", "1", "l", "2", "M",
           "3", "n", "4", "O", "5", "p", "6", "Q", "7", "r", "8", "S", "9", "t",
           "0", "U", "_", "-", "v", "x">>
      [] s = "ya29.A1b2C3d4E5f6G7h8I9j0K1l2M3n4O5p6Q7r8S9t0U_-v" ->
           <<"y", "a", "2", "9", ".", "A", "1", "b", "2", "C", "3", "d", "4", "E", "5", "f",
           "6", "G", "7", "h", "8", "I", "9", "j", "0", "K", "1", "l", "2", "M",
           "3", "n", "4", "O", "5", "p", "6", "Q", "7", "r", "8", "S", "9", "t",
           "0", "U", "_", "-", "v">>
      [] s = "ya29.A1b2C3d4E5f6G7h8I9j0K1l2M3n4O5p6Q7r8S9t0U_-v!" ->
           <<"y", "a", "2", "9", ".", "A", "1", "b", "2", "C", "3", "d", "4", "E", "5", "f",
           "6", "G", "7", "h", "8", "I", "9", "j", "0", "K", "1", "l", "2", "M",
           "3", "n", "4", "O", "5", "p", "6", "Q", "7", "r", "8", "S", "9", "t",
           "0", "U", "_", "-", "v", "!">>
      [] s = "ya29.A1b2C3d4E5f6G7h8I9j0K1l2M3n4O5p6Q7r8S9t0U_-vx\n" ->
           <<"y", "a", "2", "9", ".", "A", "1", "b", "2", "C", "3", "d", "4", "E", "5", "f",
           "6", "G", "7", "h", "8", "I", "9", "j", "0", "K", "1", "l", "2", "M",
           "3", "n", "4", "O", "5", "p", "6", "Q", "7", "r", "8", "S", "9", "t",
           "0", "U", "_", "-", "v", "x", "\n">>
      [] s = "12345678-1234-1234-1234-123456789012" ->
           <<"1", "2", "3", "4", "5", "6", "7", "8", "-", "1", "2", "3", "4", "-", "1", "2",
           "3", "4", "-", "1", "2", "3", "4", "-", "1", "2", "3", "4", "5", "6",
           "7", "8", "9", "0", "1", "2">>
      [] s = "87654321-4321-4321-4321-210987654321" ->
           <<"8", "7", "6", "5", "4", "3", "2", "1", "-", "4", "3", "2", "1", "-", "4", "3",
           "2", "1", "-", "4", "3", "2", "1", "-", "2", "1", "0", "9", "8", "7",
           "6", "5", "4", "3", "2", "1">>
      [] s = "123E4567-e89b-12d3-A456-426614174000" ->
           <<"1", "2", "3", "E", "4", "5", "6", "7", "-", "e", "8", "9", "b", "-", "1", "2",
           "d", "3", "-", "A", "4", "5", "6", "-", "4", "2", "6", "6", "1", "4",
           "1", "7", "4", "0", "0", "0">>
      [] s = " 123e4567-e89b-12d3-a456-426614174000 " ->
           <<" ", "1", "2", "3", "e", "4", "5", "6", "7", "-", "e", "8", "9", "b", "-", "1",
           "2", "d", "3", "-", "a", "4", "5", "6", "-", "4", "2", "6", "6", "1",
           "4", "1", "7", "4", "0", "0", "0", " ">>
      [] s = "123e4567-e89b-62d3-a456-426614174000" ->
           <<"1", "2", "3", "e", "4", "5", "6", "7", "-", "e", "8", "9", "b", "-", "6", "2", "d", "3", "-", "a", "4", "5", "6", "-", "4", "2", "6", "6", "1", "4", "1", "7", "4", "0", "0", "0">>
      [] s = "123e4567-e89b-12d3-a456-42661417400g" ->
           <<"1", "2", "3", "e", "4", "5", "6", "7", "-", "e", "8", "9", "b", "-", "1", "2", "d", "3", "-", "a", "4", "5", "6", "-", "4", "2", "6", "6", "1", "4", "1", "7", "4", "0", "0", "g">>
      [] s = "Loading baselines\n" ->
           <<"L", "o", "a", "d", "i", "n", "g", " ", "b", "a", "s", "e", "l", "i", "n", "e", "s", "\n">>
      [] s = "Authenticating\n" ->
           <<"A", "u", "t", "h", "e", "n", "t", "i", "c", "a", "t", "i", "n", "g", "\n">>
      [] s = "Fetching data\n" ->
           <<"F", "e", "t", "c", "h", "i", "n", "g", " ", "d", "a", "t", "a", "\n">>
      [] s = "Running Policy checks\n" ->
           <<"R", "u", "n", "n", "i", "n", "g", " ", "P", "o", "l", "i", "c", "y", " ", "c", "h", "e", "c", "k", "s", "\n">>
      [] s = "Generating report\n" ->
           <<"G", "e", "n", "e", "r", "a", "t", "i", "n", "g", " ", "r", "e", "p", "o", "r", "t", "\n">>
      [] s = "Done\n" ->
           <<"D", "o", "n", "e", "\n">>
      [] s = "warning: slow\n" ->
           <<"w", "a", "r", "n", "i", "n", "g", ":", " ", "s", "l", "o", "w", "\n">>
      [] s = "baseline" ->
           <<"b", "a", "s", "e", "l", "i", "n", "e">>
      [] s = "connect" ->
           <<"c", "o", "n", "n", "e", "c", "t">>
      [] s = "auth" ->
           <<"a", "u", "t", "h">>
      [] s = "gather" ->
           <<"g", "a", "t", "h", "e", "r">>
      [] s = "fetch" ->
           <<"f", "e", "t", "c", "h">>
      [] s = "policy" ->
           <<"p", "o", "l", "i", "c", "y">>
      [] s = "check" ->
           <<"c", "h", "e", "c", "k">>
      [] s = "report" ->
           <<"r", "e", "p", "o", "r", "t">>
      [] s = "generate" ->
           <<"g", "e", "n", "e", "r", "a", "t", "e">>
      [] s = "### Policies" ->
           <<"#", "#", "#", " ", "P", "o", "l", "i", "c", "i", "e", "s">>
      [] s = "#### GWS.0001 Example" ->
           <<"#", "#", "#", "#", " ", "G", "W", "S", ".", "0", "0", "0", "1", " ", "E", "x", "a", "m", "p", "l", "e">>
      [] s = "#### GWS.0002 Second" ->
           <<"#", "#", "#", "#", " ", "G", "W", "S", ".", "0", "0", "0", "2", " ", "S", "e", "c", "o", "n", "d">>
      [] s = "Do the thing." ->
           <<"D", "o", " ", "t", "h", "e", " ", "t", "h", "i", "n", "g", ".">>
      [] s = "  More text..  " ->
           <<" ", " ", "M", "o", "r", "e", " ", "t", "e", "x", "t", ".", ".", " ", " ">>
      [] s = "## Other" ->
           <<"#", "#", " ", "O", "t", "h", "e", "r">>
      [] s = "### Resources" ->
           <<"#", "#", "#", " ", "R", "e", "s", "o", "u", "r", "c", "e", "s">>
      [] s = "#### Notes" ->
           <<"#", "#", "#", "#", " ", "N", "o", "t", "e", "s">>
      [] s = "GWS.0001" ->
           <<"G", "W", "S", ".", "0", "0", "0", "1">>
      [] s = "GWS.0002" ->
           <<"G", "W", "S", ".", "0", "0", "0", "2">>
      [] s = "Do the thing" ->
           <<"D", "o", " ", "t", "h", "e", " ", "t", "h", "i", "n", "g">>
      [] s = "More text" ->
           <<"M", "o", "r", "e", " ", "t", "e", "x", "t">>
      [] s = "admin@example.com" ->
           <<"a", "d", "m", "i", "n", "@", "e", "x", "a", "m", "p", "l", "e", ".", "c", "o",
           "m">>
      [] s = "example.com" ->
           <<"e", "x", "a", "m", "p", "l", "e", ".", "c", "o", "m">>
      [] s = "bad_domain.com" ->
           <<"b", "a", "d", "_", "d", "o", "m", "a", "i", "n", ".", "c", "o", "m">>
      [] s = "-example.com" ->
           <<"-", "e", "x", "a", "m", "p", "l", "e", ".", "c", "o", "m">>
      [] s = "a..b" ->
           <<"a", ".", ".", "b">>
      [] s = "gmail" ->
           <<"g", "m", "a", "i", "l">>
      [] s = "your-access-token-here" ->
           <<"y", "o", "u", "r", "-", "a", "c", "c", "e", "s", "s", "-", "t", "o", "k", "e",
           "n", "-", "h", "e", "r", "e">>
      [] s = "" ->
           <<>>

Digits == {"0", "1", "2", "3", "4", "5", "6", "7", "8", "9"}
Lower == {"a", "b", "c", "d", "e", "f", "g", "h", "i", "j", "k", "l", "m",
          "n", "o", "p", "q", "r", "s", "t", "u", "v", "w", "x", "y", "z"}
Upper == {"A", "B", "C", "D", "E", "F", "G", "H", "I", "J", "K", "L", "M",
          "N", "O", "P", "Q", "R", "S", "T", "U", "V", "W", "X", "Y", "Z"}
AlNum == Digits \cup Lower \cup Upper
\* [0-9a-f] under re.IGNORECASE
HexDigits == Digits \cup {"a", "b", "c", "d", "e", "f", "A", "B", "C", "D", "E", "F"}
Whitespace == {" ", "\t", "\n", "\r"}

AllIn(cs, S) == \A i \in 1..Len(cs) : cs[i] \in S
\* `$` matches at the end of the string and before a newline that ends it
BeforeDollar(cs) ==
    IF Len(cs) > 0 /\ cs[Len(cs)] = "\n" THEN {cs, SubSeq(cs, 1, Len(cs) - 1)} ELSE {cs}

\* str.strip()
RECURSIVE LStrip(_)
LStrip(cs) == IF cs # <<>> /\ Head(cs) \in Whitespace THEN LStrip(Tail(cs)) ELSE cs
RECURSIVE RStrip(_)
RStrip(cs) ==
    IF cs # <<>> /\ cs[Len(cs)] \in Whitespace THEN RStrip(SubSeq(cs, 1, Len(cs) - 1)) ELSE cs
Strip(cs) == RStrip(LStrip(cs))

\* re.match(r'^[A-Za-z0-9._-]+$', token)
TokenClass == AlNum \cup {".", "_", "-"}
MatchesToken(cs) == \E b \in BeforeDollar(cs) : Len(b) >= 1 /\ AllIn(b, TokenClass)

\* uuid_pattern.match: 8-4-4-4-12 hex groups, third group starting with 1-5,
\* fourth with 8, 9, a or b, re.IGNORECASE
UuidBody(b) ==
    /\ Len(b) = 36
    /\ \A i \in {9, 14, 19, 24} : b[i] = "-"
    /\ \A i \in (1..36) \ {9, 14, 19, 24} : b[i] \in HexDigits
    /\ b[15] \in {"1", "2", "3", "4", "5"}
    /\ b[20] \in {"8", "9", "a", "b", "A", "B"}
MatchesUuid(cs) == \E b \in BeforeDollar(cs) : UuidBody(b)

\* domain_pattern.match: labels separated by dots, each label 1 to 63
\* characters, alphanumeric at both ends, alphanumeric or '-' inside
DomainLabel(cs) ==
    /\ Len(cs) >= 1 /\ Len(cs) <= 63
    /\ cs[1] \in AlNum /\ cs[Len(cs)] \in AlNum
    /\ AllIn(cs, AlNum \cup {"-"})
RECURSIVE SplitDots(_, _, _)
SplitDots(cs, i, cur) ==
    IF i > Len(cs) THEN <<cur>>
    ELSE IF cs[i] = "." THEN <<cur>> \o SplitDots(cs, i + 1, <<>>)
    ELSE SplitDots(cs, i + 1, Append(cur, cs[i]))
MatchesDomain(cs) ==
    \E b \in BeforeDollar(cs) :
        LET labels == SplitDots(b, 1, <<>>) IN
        \A i \in 1..Len(labels) : DomainLabel(labels[i])

(***************************************************************************)
(* ConfigValidator: field validators.  A validator returns (ok, message)   *)
(* or raises; a message is the sequence of its parts, <<>> for None.       *)
(***************************************************************************)
Res(ok, msg) == [raised |-> FALSE, exc |-> "", ok |-> ok, msg |-> msg]
Raises(exc) == [raised |-> TRUE, exc |-> exc, ok |-> FALSE, msg |-> <<>>]

\* the text of the str values of a list, in order
Texts(l) == [i \in 1..Len(l) |-> l[i].s]
\* iterating a str yields its characters, iterating a dict its keys
Items(v) ==
    CASE v.t = "list" -> v.l
      [] v.t = "str" -> [i \in 1..Len(Chars(v.s)) |-> Str(Chars(v.s)[i])]
      [] v.t = "map" -> [i \in 1..Len(v.m) |-> Str(v.m[i].k)]
Iterable(v) == v.t \in {"list", "str", "map"}
\* the characters of a str value; an item of an iterated str is one character
CharsOf(v, whole) == IF whole.t = "str" THEN <<v.s>> ELSE Chars(v.s)

\* the credentials files of the file system, by path
CredentialsJson(type, fields) ==
    Map([i \in 1..Len(fields) |->
            Entry(fields[i], IF fields[i] = "type" THEN Str(type) ELSE Str("..."))])
RequiredFields == <<"type", "client_id", "client_email", "private_key">>
CredFile(path) ==
    CASE path = "sa.json" ->
           [exists |-> TRUE, readable |-> TRUE, json |-> TRUE,
            data |-> CredentialsJson("service_account", RequiredFields)]
      [] path = "user.json" ->
           [exists |-> TRUE, readable |-> TRUE, json |-> TRUE,
            data |-> CredentialsJson("user", RequiredFields)]
      [] path = "nokey.json" ->
           [exists |-> TRUE, readable |-> TRUE, json |-> TRUE,
            data |-> CredentialsJson("service_account", <<"type", "client_id", "client_email">>)]
      [] path = "nokey_user.json" ->
           [exists |-> TRUE, readable |-> TRUE, json |-> TRUE,
            data |-> CredentialsJson("user", <<"type", "client_id", "client_email">>)]
      [] path = "list.json" ->
           [exists |-> TRUE, readable |-> TRUE, json |-> TRUE,
            data |-> List([i \in 1..4 |-> Str(RequiredFields[i])])]
      [] path = "number.json" ->
           [exists |-> TRUE, readable |-> TRUE, json |-> TRUE, data |-> IntV("123")]
      [] path = "bad.json" ->
           [exists |-> TRUE, readable |-> TRUE, json |-> FALSE, data |-> None]
      [] path = "locked.json" ->
           [exists |-> TRUE, readable |-> FALSE, json |-> TRUE, data |-> None]
      [] path = "creds.txt" ->
           [exists |-> TRUE, readable |-> TRUE, json |-> TRUE,
            data |-> CredentialsJson("service_account", RequiredFields)]
      [] OTHER ->
           [exists |-> FALSE, readable |-> FALSE, json |-> FALSE, data |-> None]
\* path.suffix.lower() == '.json'
JsonSuffix(path) == path # "creds.txt"

\* `field not in creds_data`; "TypeError" when creds_data is no container
MissingFields(data) ==
    SelectSeq(RequiredFields,
              LAMBDA f : CASE data.t = "map" -> ~Has(data.m, f)
                           [] data.t = "list" -> Str(f) \notin {data.l[i] : i \in 1..Len(data.l)}
                           [] OTHER -> TRUE)

\* mutant: the type check before the missing-field check
validate_credentials_file_typefirst(file_path) ==
    IF ~Truthy(file_path) THEN Res(FALSE, <<"Credentials file path is required">>)
    ELSE IF file_path.t # "str" THEN Raises("TypeError")
    ELSE LET f == CredFile(file_path.s) IN
         IF ~f.exists
         THEN Res(FALSE, <<"Credentials file does not exist: ", file_path.s>>)
         ELSE IF ~JsonSuffix(file_path.s)
         THEN Res(FALSE, <<"Credentials file must be a JSON file">>)
         ELSE IF ~f.readable
         THEN Res(FALSE, <<"Error reading credentials file: ", "PermissionError">>)
         ELSE IF ~f.json
         THEN Res(FALSE, <<"Invalid JSON in credentials file: ", "JSONDecodeError">>)
         ELSE IF f.data.t # "map"
         THEN Res(FALSE, <<"Error reading credentials file: ", "AttributeError">>)
         ELSE IF GetOr(f.data.m, "type", None) # Str("service_account")
         THEN Res(FALSE, <<"Credentials file must be for a service account">>)
         ELSE IF MissingFields(f.data) # <<>>
         THEN Res(FALSE, <<"Credentials file missing required fields: ">> \o MissingFields(f.data))
         ELSE Res(TRUE, <<>>)

validate_credentials_file(file_path) ==
    IF ~Truthy(file_path) THEN Res(FALSE, <<"Credentials file path is required">>)
    ELSE IF file_path.t # "str" THEN Raises("TypeError")      \* Path(file_path)
    ELSE LET f == CredFile(file_path.s) IN
         IF ~f.exists
         THEN Res(FALSE, <<"Credentials file does not exist: ", file_path.s>>)
         ELSE IF ~JsonSuffix(file_path.s)
         THEN Res(FALSE, <<"Credentials file must be a JSON file">>)
         ELSE IF ~f.readable
         THEN Res(FALSE, <<"Error reading credentials file: ", "PermissionError">>)
         ELSE IF ~f.json
         THEN Res(FALSE, <<"Invalid JSON in credentials file: ", "JSONDecodeError">>)
         ELSE IF f.data.t \notin {"map", "list", "str"}
         THEN Res(FALSE, <<"Error reading credentials file: ", "TypeError">>)
         ELSE IF MissingFields(f.data) # <<>>
         THEN Res(FALSE, <<"Credentials file missing required fields: ">> \o MissingFields(f.data))
         ELSE IF f.data.t # "map"
         THEN Res(FALSE, <<"Error reading credentials file: ", "AttributeError">>)
         ELSE IF Get(f.data.m, "type") # Str("service_account")
         THEN Res(FALSE, <<"Credentials file must be for a service account">>)
         ELSE Res(TRUE, <<>>)

\* the least length of an access token
MinTokenLen == 50

validate_access_token(token) ==
    IF ~Truthy(token) THEN Res(FALSE, <<"Access token is required">>)
    ELSE IF ~Iterable(token) THEN Raises("TypeError")         \* len(token)
    ELSE IF Len(Items(token)) < MinTokenLen
    THEN Res(FALSE, <<"Access token appears to be too short">>)
    ELSE IF token.t # "str" THEN Raises("TypeError")          \* re.match
    ELSE IF ~MatchesToken(Chars(token.s))
    THEN Res(FALSE, <<"Access token contains invalid characters">>)
    ELSE Res(TRUE, <<>>)

validate_baselines(baselines, available_baselines) ==
    IF ~Truthy(baselines) THEN Res(FALSE, <<"At least one baseline must be selected">>)
    ELSE IF ~Iterable(baselines) THEN Raises("TypeError")     \* for b in baselines
    ELSE LET invalid_baselines ==
                 SelectSeq(Items(baselines),
                           LAMBDA b : b \notin {Str(a) : a \in available_baselines})
         IN  IF invalid_baselines = <<>> THEN Res(TRUE, <<>>)
             ELSE IF \E i \in 1..Len(invalid_baselines) : invalid_baselines[i].t # "str"
             THEN Raises("TypeError")                          \* ', '.join
             ELSE Res(FALSE, <<"Invalid baselines selected: ">> \o Texts(invalid_baselines))

\* mutant: the entries are matched without account.strip()
validate_break_glass_accounts_nostrip(accounts) ==
    IF ~Truthy(accounts) THEN Res(TRUE, <<>>)
    ELSE IF ~Iterable(accounts) THEN Raises("TypeError")
    ELSE IF \E i \in 1..Len(Items(accounts)) : Items(accounts)[i].t # "str"
    THEN Raises("AttributeError")
    ELSE LET invalid_uuids ==
                 SelectSeq(Items(accounts),
                           LAMBDA a : ~MatchesUuid(CharsOf(a, accounts)))
         IN  IF invalid_uuids # <<>>
             THEN Res(FALSE, <<"Invalid UUID format for break glass accounts: ">>
                             \o Texts(invalid_uuids))
             ELSE Res(TRUE, <<>>)

validate_break_glass_accounts(accounts) ==
    IF ~Truthy(accounts) THEN Res(TRUE, <<>>)
    ELSE IF ~Iterable(accounts) THEN Raises("TypeError")      \* for account in accounts
    ELSE IF \E i \in 1..Len(Items(accounts)) : Items(accounts)[i].t # "str"
    THEN Raises("AttributeError")                              \* account.strip()
    ELSE LET invalid_uuids ==
                 SelectSeq(Items(accounts),
                           LAMBDA a : ~MatchesUuid(Strip(CharsOf(a, accounts))))
         IN  IF invalid_uuids # <<>>
             THEN Res(FALSE, <<"Invalid UUID format for break glass accounts: ">>
                             \o Texts(invalid_uuids))
             ELSE Res(TRUE, <<>>)

validate_tenant_domain(domain) ==
    IF ~Truthy(domain) THEN Res(TRUE, <<>>)
    ELSE IF domain.t # "str" THEN Raises("TypeError")         \* domain_pattern.match
    ELSE IF ~MatchesDomain(Chars(domain.s)) THEN Res(FALSE, <<"Invalid domain format">>)
    ELSE Res(TRUE, <<>>)

(***************************************************************************)
(* validate_output_path and the file system at the output path:            *)
(*   parent          the parent directory exists                           *)
(*   parent_writable  entries can be created in the parent                  *)
(*   kind            "absent", "dir" or "file": what is at the path        *)
(*   writable        entries can be created in the directory               *)
(*   files           the names of the files in the directory               *)
(***************************************************************************)
OutDir(parent, parent_writable, kind, writable, files) ==
    [parent |-> parent, parent_writable |-> parent_writable, kind |-> kind,
     writable |-> writable, files |-> files]

\* unlink_ok: whether the file system lets test_file.unlink() succeed
validate_output_path(output_path, fs, unlink_ok) ==
    IF ~Truthy(output_path)
    THEN [res |-> Res(FALSE, <<"Output path is required">>), fs |-> fs]
    ELSE IF output_path.t # "str"
    THEN [res |-> Raises("TypeError"), fs |-> fs]              \* Path(output_path)
    ELSE IF ~fs.parent
    THEN [res |-> Res(FALSE, <<"Parent directory does not exist: ", output_path.s>>), fs |-> fs]
    ELSE IF fs.kind = "file"                                   \* mkdir: FileExistsError
    THEN [res |-> Res(FALSE, <<"Error with output path: ", "FileExistsError">>), fs |-> fs]
    ELSE IF fs.kind = "absent" /\ ~fs.parent_writable          \* mkdir: PermissionError
    THEN [res |-> Res(FALSE, <<"No write permission for output path: ", output_path.s>>),
          fs |-> fs]
    ELSE LET made == IF fs.kind = "absent"
                     THEN [fs EXCEPT !.kind = "dir", !.writable = TRUE, !.files = {}]
                     ELSE fs
         IN  IF ~made.writable                                 \* touch: PermissionError
             THEN [res |-> Res(FALSE, <<"No write permission for output path: ", output_path.s>>),
                   fs |-> made]
             ELSE LET touched == [made EXCEPT !.files = @ \cup {"test_write.tmp"}] IN
                  IF ~unlink_ok                                \* unlink: PermissionError
                  THEN [res |-> Res(FALSE, <<"No write permission for output path: ",
                                             output_path.s>>),
                        fs |-> touched]
                  ELSE [res |-> Res(TRUE, <<>>),
                        fs |-> [touched EXCEPT !.files = @ \ {"test_write.tmp"}]]

(***************************************************************************)
(* ConfigValidator.validate_complete_config                                *)
(***************************************************************************)
\* one check of validate_complete_config: the messages it appends, or that
\* it raised
Check(raised, errs) == [raised |-> raised, errs |-> errs]
NoError == Check(FALSE, <<>>)
\* is_valid, error = validator(...); if not is_valid: errors.append(prefix + error)
Appended(prefix, r) ==
    IF r.raised THEN Check(TRUE, <<>>)
    ELSE IF ~r.ok THEN Check(FALSE, <<<<prefix>> \o r.msg>>)
    ELSE NoError

AuthCheck(d) ==
    LET has_creds == GetOr(d, "credentials", None)
        has_token == GetOr(d, "accesstoken", None)
    IN  IF ~Truthy(has_creds) /\ ~Truthy(has_token)
        THEN Check(FALSE, <<<<"Either credentials file or access token is required">>>>)
        ELSE IF Truthy(has_creds)
        THEN Appended("Credentials validation: ", validate_credentials_file(has_creds))
        ELSE Appended("Access token validation: ", validate_access_token(has_token))

BaselineCheck(d, available_baselines) ==
    Appended("Baseline validation: ",
             validate_baselines(GetOr(d, "baselines", List(<<>>)), available_baselines))

\* the output path check also returns the file system it leaves
OutputPathCheck(d, fs, unlink_ok) ==
    LET output_path == GetOr(d, "outputpath", None) IN
    IF Truthy(output_path)
    THEN LET r == validate_output_path(output_path, fs, unlink_ok) IN
         [check |-> Appended("Output path validation: ", r.res), fs |-> r.fs]
    ELSE [check |-> NoError, fs |-> fs]

BreakGlassCheck(d) ==
    LET break_glass == GetOr(d, "breakglassaccounts", List(<<>>)) IN
    IF Truthy(break_glass)
    THEN Appended("Break glass accounts validation: ", validate_break_glass_accounts(break_glass))
    ELSE NoError

TenantCheck(d) ==
    LET tenant_domain == GetOr(d, "tenant", None) IN
    IF Truthy(tenant_domain)
    THEN Appended("Tenant domain validation: ", validate_tenant_domain(tenant_domain))
    ELSE NoError

\* mutant: errors.insert(0, ...) instead of errors.append(...)
RECURSIVE run_checks_reversed(_, _, _)
run_checks_reversed(checks, i, errors) ==
    IF i > Len(checks) THEN [raised |-> FALSE, errors |-> errors]
    ELSE IF checks[i].raised THEN [raised |-> TRUE, errors |-> <<>>]
    ELSE run_checks_reversed(checks, i + 1, checks[i].errs \o errors)

\* mutant: return at the first failing check
RECURSIVE run_checks_first(_, _, _)
run_checks_first(checks, i, errors) ==
    IF i > Len(checks) \/ errors # <<>> THEN [raised |-> FALSE, errors |-> errors]
    ELSE IF checks[i].raised THEN [raised |-> TRUE, errors |-> <<>>]
    ELSE run_checks_first(checks, i + 1, errors \o checks[i].errs)

\* the checks run in sequence from check i on; an exception ends the call
RECURSIVE run_checks(_, _, _)
run_checks(checks, i, errors) ==
    IF i > Len(checks) THEN [raised |-> FALSE, errors |-> errors]
    ELSE IF checks[i].raised THEN [raised |-> TRUE, errors |-> <<>>]
    ELSE run_checks(checks, i + 1, errors \o checks[i].errs)

\* the file system after the checks: the output path is probed unless an
\* earlier check raised
ValidateResult(raised, errors, fs) ==
    [raised |-> raised, ok |-> ~raised /\ Len(errors) = 0, errors |-> errors, fs |-> fs]

validate_complete_config(config, available_baselines, fs, unlink_ok) ==
    IF config.t # "map"
    THEN ValidateResult(TRUE, <<>>, fs)                        \* config_dict.get
    ELSE LET d == config.m
             auth == AuthCheck(d)
             base == BaselineCheck(d, available_baselines)
             before_out == auth.raised \/ base.raised
             out == IF before_out THEN [check |-> NoError, fs |-> fs]
                    ELSE OutputPathCheck(d, fs, unlink_ok)
             r == run_checks(<<auth, base, out.check, BreakGlassCheck(d), TenantCheck(d)>>,
                             1, <<>>)
         IN  ValidateResult(r.raised, r.errors, out.fs)

(***************************************************************************)
(* Validator inputs and actions                                            *)
(***************************************************************************)
\* ScubaConfigApp.get_baseline_info: the recognized baselines
AvailableBaselines ==
    {"commoncontrols", "assuredcontrols", "gmail", "drive", "calendar", "meet",
     "groups", "chat", "sites", "classroom"}

\* the keys validate_complete_config reads; a document is filled in this order
ValKeys == <<"credentials", "accesstoken", "baselines", "outputpath",
             "breakglassaccounts", "tenant">>
\* the values a document can hold for a key, those a loaded file can hold
\* that are no str / list of str included
ValValues(k) ==
    CASE k = "credentials" -> {Str(""), Str("sa.json"), Str("user.json"), IntV("123")}
      [] k = "accesstoken" -> {Str(Tok50), Str(Tok49), IntV("12345")}
      [] k = "baselines" ->
           {List(<<>>), List(<<Str("gmail"), Str("drive")>>), List(<<Str("bogus")>>),
            List(<<IntV("1")>>)}
      [] k = "outputpath" -> {Str("reports")}
      [] k = "breakglassaccounts" ->
           {List(<<Str(UuidV1)>>), List(<<Str("admin@example.com")>>), List(<<IntV("1")>>)}
      [] k = "tenant" -> {Str("example.com"), Str("a..b"), IntV("123")}

\* the file system at the output path before the validator runs
OutDirStates ==
    { OutDir(FALSE, FALSE, "absent", FALSE, {}),
      OutDir(TRUE, TRUE, "absent", FALSE, {}),
      OutDir(TRUE, TRUE, "dir", TRUE, {"report.html"}),
      OutDir(TRUE, TRUE, "dir", FALSE, {"report.html"}) }

NoResult ==
    [call |-> "none", raised |-> FALSE, ok |-> FALSE, errors |-> <<>>,
     fs_before |-> OutDir(FALSE, FALSE, "absent", FALSE, {}), unlink_ok |-> FALSE]

ValIdle ==
    /\ vconfig = Map(<<>>)
    /\ out_dir = OutDir(FALSE, FALSE, "absent", FALSE, {})
    /\ vresult = NoResult
    /\ vpc = "idle"

\* the document is empty; SetField fills it
ValInit ==
    /\ vconfig = Map(<<>>)
    /\ out_dir \in OutDirStates
    /\ vresult = NoResult
    /\ vpc = "build"

KeyIndex(k) == CHOOSE i \in 1..Len(ValKeys) : ValKeys[i] = k

SetField(k, v) ==
    /\ vpc = "build"
    /\ vconfig.t = "map"
    /\ \A j \in 1..Len(vconfig.m) : KeyIndex(vconfig.m[j].k) < KeyIndex(k)
    /\ vconfig' = Map(DictSet(vconfig.m, k, v))
    /\ UNCHANGED <<out_dir, vresult, vpc>>
    /\ UNCHANGED notVal

ValidateCompleteConfig(unlink_ok) ==
    /\ vpc = "build"
    /\ LET r == validate_complete_config(vconfig, AvailableBaselines, out_dir, unlink_ok) IN
       /\ vresult' = [call |-> "complete", raised |-> r.raised, ok |-> r.ok,
                      errors |-> r.errors, fs_before |-> out_dir, unlink_ok |-> unlink_ok]
       /\ out_dir' = r.fs
    /\ vpc' = "validated"
    /\ UNCHANGED vconfig
    /\ UNCHANGED notVal

\* the validator of one field applied to the value of a document that holds
\* just that field
FieldValidator(k, v, fs, unlink_ok) ==
    CASE k = "credentials" -> [res |-> validate_credentials_file(v), fs |-> fs]
      [] k = "accesstoken" -> [res |-> validate_access_token(v), fs |-> fs]
      [] k = "baselines" -> [res |-> validate_baselines(v, AvailableBaselines), fs |-> fs]
      [] k = "outputpath" -> validate_output_path(v, fs, unlink_ok)
      [] k = "breakglassaccounts" -> [res |-> validate_break_glass_accounts(v), fs |-> fs]
      [] k = "tenant" -> [res |-> validate_tenant_domain(v), fs |-> fs]

ValidateField(k, unlink_ok) ==
    /\ vpc = "build"
    /\ vconfig.t = "map"
    /\ Len(vconfig.m) = 1
    /\ vconfig.m[1].k = k
    /\ LET r == FieldValidator(k, Get(vconfig.m, k), out_dir, unlink_ok) IN
       /\ vresult' = [call |-> k, raised |-> r.res.raised, ok |-> r.res.ok,
                      errors |-> IF r.res.msg = <<>> THEN <<>> ELSE <<r.res.msg>>,
                      fs_before |-> out_dir, unlink_ok |-> unlink_ok]
       /\ out_dir' = r.fs
    /\ vpc' = "field"
    /\ UNCHANGED vconfig
    /\ UNCHANGED notVal

ValNext ==
    \/ \E i \in 1..Len(ValKeys) : \E v \in ValValues(ValKeys[i]) : SetField(ValKeys[i], v)
    \/ \E unlink_ok \in BOOLEAN : ValidateCompleteConfig(unlink_ok)
    \/ \E i \in 1..Len(ValKeys) : \E unlink_ok \in BOOLEAN : ValidateField(ValKeys[i], unlink_ok)

(***************************************************************************)
(* The field validators on their own: a document of one field is handed   *)
(* to the validator of that field                                          *)
(***************************************************************************)
\* the longest breakglassaccounts list
MaxAccounts == 2

CredentialPaths ==
    {"", "sa.json", "user.json", "nokey.json", "nokey_user.json", "list.json",
     "number.json", "bad.json", "locked.json", "creds.txt", "missing.json"}
TokenTexts == {"", Tok50, Tok49, Tok50Bang, Tok50Newline, "your-access-token-here"}
AccountTexts ==
    {UuidSample, UuidSample2, UuidV1, UuidV1Padded, UuidV6, UuidNonHex, "admin@example.com"}

FieldValues(k) ==
    CASE k = "credentials" -> {Str(p) : p \in CredentialPaths}
      [] k = "accesstoken" -> {Str(t) : t \in TokenTexts}
      [] k = "baselines" -> ValValues(k)
      [] k = "outputpath" -> {Str(""), Str("reports")}
      [] k = "breakglassaccounts" -> {List(<<>>)}
      [] k = "tenant" ->
           {Str(""), Str("example.com"), Str("a..b"), Str("bad_domain.com"), Str("-example.com")}

\* the file system at the output path before validate_output_path runs
FieldOutDirStates ==
    OutDirStates \cup
    { OutDir(TRUE, FALSE, "absent", FALSE, {}),
      OutDir(TRUE, TRUE, "file", FALSE, {}),
      OutDir(TRUE, TRUE, "dir", TRUE, {"report.html", "test_write.tmp"}) }

FieldInit ==
    /\ vconfig = Map(<<>>)
    /\ out_dir \in FieldOutDirStates
    /\ vresult = NoResult
    /\ vpc = "build"

\* the one field of the document is set
SetOneField(k, v) ==
    /\ vconfig = Map(<<>>)
    /\ SetField(k, v)

\* one more account is entered into the breakglassaccounts list
AddAccount(a) ==
    /\ vpc = "build"
    /\ Has(vconfig.m, "breakglassaccounts")
    /\ Len(Get(vconfig.m, "breakglassaccounts").l) < MaxAccounts
    /\ vconfig' = Map(DictSet(vconfig.m, "breakglassaccounts",
                              List(Append(Get(vconfig.m, "breakglassaccounts").l, Str(a)))))
    /\ UNCHANGED <<out_dir, vresult, vpc>>
    /\ UNCHANGED notVal

FieldNext ==
    \/ \E i \in 1..Len(ValKeys) : \E v \in FieldValues(ValKeys[i]) : SetOneField(ValKeys[i], v)
    \/ \E a \in AccountTexts : AddAccount(a)
    \/ \E i \in 1..Len(ValKeys) : \E unlink_ok \in BOOLEAN : ValidateField(ValKeys[i], unlink_ok)

(***************************************************************************)
(* ScubaConfigApp.extract_policies_from_markdown.  One step of the model   *)
(* is one iteration of `for line in lines`.                                *)
(***************************************************************************)
\* the most lines of a scanned content
MaxLines == 5

\* the lines a baseline document is made of
MarkdownLines ==
    {"### Policies", "#### GWS.0001 Example", "#### GWS.0002 Second", "Do the thing.",
     "  More text..  ", "## Other", "### Resources", "#### Notes", ""}

\* str.startswith
StartsWith(cs, prefix) == Len(cs) >= Len(prefix) /\ SubSeq(cs, 1, Len(prefix)) = prefix
\* str.replace(old, '')
RECURSIVE Remove(_, _)
Remove(cs, old) ==
    IF cs = <<>> THEN <<>>
    ELSE IF StartsWith(cs, old) THEN Remove(SubSeq(cs, Len(old) + 1, Len(cs)), old)
    ELSE <<Head(cs)>> \o Remove(Tail(cs), old)
\* str.split()[0]
RECURSIVE UpToWhitespace(_)
UpToWhitespace(cs) ==
    IF cs = <<>> \/ Head(cs) \in Whitespace THEN <<>>
    ELSE <<Head(cs)>> \o UpToWhitespace(Tail(cs))
FirstToken(cs) == UpToWhitespace(LStrip(cs))
\* str.rstrip('.')
RECURSIVE RStripDots(_)
RStripDots(cs) ==
    IF cs # <<>> /\ cs[Len(cs)] = "." THEN RStripDots(SubSeq(cs, 1, Len(cs) - 1)) ELSE cs

PoliciesHeader == <<"#", "#", "#", " ", "P", "o", "l", "i", "c", "i", "e", "s">>
H3Prefix == <<"#", "#", "#", " ">>
H4Prefix == <<"#", "#", "#", "#", " ">>
PolicyPrefix == <<"#", "#", "#", "#", " ", "G", "W", "S", ".">>

ScanState(section, id, found) ==
    [in_policies_section |-> section, current_policy_id |-> id, policies |-> found]

\* mutant: the description is stored as written, without rstrip('.')
loop_body_keepdots(st, raw) ==
    LET line == Strip(raw) IN
    IF line = PoliciesHeader
    THEN [st EXCEPT !.in_policies_section = TRUE]
    ELSE IF st.in_policies_section /\ StartsWith(line, H3Prefix) /\ line # PoliciesHeader
    THEN [st EXCEPT !.in_policies_section = FALSE]
    ELSE IF st.in_policies_section /\ StartsWith(line, PolicyPrefix)
    THEN [st EXCEPT !.current_policy_id = FirstToken(Remove(line, H4Prefix))]
    ELSE IF /\ st.in_policies_section /\ st.current_policy_id # <<>>
            /\ ~StartsWith(line, <<"#">>) /\ line # <<>>
    THEN [st EXCEPT !.policies = DictSet(@, st.current_policy_id, line),
                    !.current_policy_id = <<>>]
    ELSE st

\* the body of `for line in lines`, on the loop state st and the raw line
loop_body(st, raw) ==
    LET line == Strip(raw) IN
    IF line = PoliciesHeader
    THEN [st EXCEPT !.in_policies_section = TRUE]
    ELSE IF st.in_policies_section /\ StartsWith(line, H3Prefix) /\ line # PoliciesHeader
    THEN [st EXCEPT !.in_policies_section = FALSE]
    ELSE IF st.in_policies_section /\ StartsWith(line, PolicyPrefix)
    THEN [st EXCEPT !.current_policy_id = FirstToken(Remove(line, H4Prefix))]
    ELSE IF /\ st.in_policies_section /\ st.current_policy_id # <<>>
            /\ ~StartsWith(line, <<"#">>) /\ line # <<>>
    THEN [st EXCEPT !.policies = DictSet(@, st.current_policy_id, RStripDots(line)),
                    !.current_policy_id = <<>>]
    ELSE st

\* extract_policies_from_markdown on the content that has lines from i on
\* left to go through
RECURSIVE scan_from(_, _, _)
scan_from(st, lines, i) ==
    IF i > Len(lines) THEN st ELSE scan_from(loop_body(st, Chars(lines[i])), lines, i + 1)
extract_policies_from_markdown(lines) ==
    scan_from(ScanState(FALSE, <<>>, <<>>), lines, 1).policies

ScanIdle ==
    /\ md_lines = <<>>
    /\ in_policies_section = FALSE
    /\ current_policy_id = <<>>
    /\ policies = <<>>

\* policies = {}; in_policies_section = False; current_policy_id = None
ScanInit == ScanIdle

\* the loop goes through one more line of the content
ScanLine(raw) ==
    /\ Len(md_lines) < MaxLines
    /\ LET st == loop_body(ScanState(in_policies_section, current_policy_id, policies),
                           Chars(raw))
       IN  /\ in_policies_section' = st.in_policies_section
           /\ current_policy_id' = st.current_policy_id
           /\ policies' = st.policies
    /\ md_lines' = Append(md_lines, raw)
    /\ UNCHANGED notScan

ScanNext == \E raw \in MarkdownLines : ScanLine(raw)

(***************************************************************************)
(* ScubaConfigApp: the session model, validate_config and the run button   *)
(***************************************************************************)
\* the fields validate_config reads, and customerid
AppKeys == <<"orgname", "baselines", "auth_method", "customerid", "subjectemail", "credentials">>
AppValues(k) ==
    CASE k = "orgname" -> {Str(""), Str("Example Org")}
      [] k = "baselines" -> {List(<<>>), List(<<Str("gmail")>>)}
      [] k = "auth_method" ->
           {Str("Service Account"), Str("OAuth 2.0"), Str("Application Default Credentials")}
      [] k = "customerid" -> {Str(""), Str("C01234567")}
      [] k = "subjectemail" -> {Str(""), Str("admin@example.com")}
      [] k = "credentials" -> {Str(""), Str("sa.json")}

\* ScubaConfigApp.validate_config: the errors it shows
validate_config(data) ==
    LET required(k, msg) == IF ~Truthy(GetOr(data, k, None)) THEN <<msg>> ELSE <<>>
        auth_method == GetOr(data, "auth_method", Str("Service Account"))
    IN  required("orgname", "Organization Name is required")
        \o required("baselines", "At least one baseline must be selected")
        \o (IF auth_method = Str("Service Account")
            THEN required("subjectemail",
                          "Subject Email is required for Service Account authentication")
                 \o required("credentials",
                             "Credentials file is required for Service Account authentication")
            ELSE <<>>)

\* ScubaConfigApp.get_baseline_info: its keys, in the order of the dict
available_baselines ==
    <<"commoncontrols", "assuredcontrols", "gmail", "drive", "calendar", "meet",
      "groups", "chat", "sites", "classroom">>

\* self.available_policies: what parse_baseline_policies found in the baseline
\* directory, the policy identifiers of each product file under its upper-case stem
available_policies ==
    << Entry("GMAIL", <<"GWS.GMAIL.1.1v0.3">>) >>

PolicyCatalog ==
    UNION {{available_policies[i].v[j] : j \in 1..Len(available_policies[i].v)} :
           i \in 1..Len(available_policies)}

\* the widget keys of a fresh session: baseline_<product>, and for both tabs
\* expand_<tab>_<policy id> and editing_<tab>_<policy id>; a key that is not
\* there reads as False (session_state.get(key, False))
PolicyTabs == {"omit", "annotate"}
NoWidgets ==
    [baseline |-> [b \in {available_baselines[i] : i \in 1..Len(available_baselines)} |-> FALSE],
     expand   |-> [tab \in PolicyTabs |-> [p \in PolicyCatalog |-> FALSE]],
     editing  |-> [tab \in PolicyTabs |-> [p \in PolicyCatalog |-> FALSE]]]

NoOp == [op |-> "none", doc |-> Unset]

NoClick == [clicked |-> FALSE, valid |-> FALSE, errors |-> <<>>, ran |-> FALSE]

AppIdle ==
    /\ config_data = DefaultConfigData
    /\ run_tab = NoClick
    /\ widget_state = NoWidgets
    /\ last_op = NoOp

\* ScubaConfigApp.__init__: the session model starts with its defaults
AppInit == AppIdle

\* a widget writes its value into the session model; the page is drawn anew
SetConfigData(k, v) ==
    /\ config_data' = DictSet(config_data, k, v)
    /\ run_tab' = NoClick
    /\ UNCHANGED <<widget_state, last_op>>
    /\ UNCHANGED notApp

\* render_run_tab: "Run ScubaGoggles Assessment" is clicked
RunAssessmentClicked ==
    /\ LET errors == validate_config(config_data) IN
       run_tab' = [clicked |-> TRUE, valid |-> errors = <<>>, errors |-> errors,
                   ran |-> errors = <<>>]
    /\ UNCHANGED <<config_data, widget_state, last_op>>
    /\ UNCHANGED notApp

AppNext ==
    \/ \E i \in 1..Len(AppKeys) : \E v \in AppValues(AppKeys[i]) : SetConfigData(AppKeys[i], v)
    \/ RunAssessmentClicked

(***************************************************************************)
(* ScubaConfigApp: the session model under the main tab, the omit and       *)
(* annotate tabs and the import of a configuration.  One step is one click  *)
(* and the run of the script it causes (st.rerun or the end of the run);    *)
(* of the widgets drawn by that run the product checkboxes are modelled.    *)
(***************************************************************************)
\* str.upper on the product names of the model
str_upper(s) ==
    CASE s = "commoncontrols" -> "COMMONCONTROLS"
      [] s = "assuredcontrols" -> "ASSUREDCONTROLS"
      [] s = "gmail" -> "GMAIL"
      [] s = "drive" -> "DRIVE"
      [] s = "calendar" -> "CALENDAR"
      [] s = "meet" -> "MEET"
      [] s = "groups" -> "GROUPS"
      [] s = "chat" -> "CHAT"
      [] s = "sites" -> "SITES"
      [] s = "classroom" -> "CLASSROOM"
      [] s = "bogus" -> "BOGUS"

\* darkmode.lower() == 'true', on the texts of the model
lower_is_true(s) == s \in {"true", "True", "TRUE"}

\* del d[k]
DictDel(d, k) == SelectSeq(d, LAMBDA en : en.k # k)

\* list.remove(x): the first occurrence goes
ListRemove(l, x) ==
    LET i == CHOOSE j \in 1..Len(l) : l[j] = x /\ \A h \in 1..(j - 1) : l[h] # x
    IN  SubSeq(l, 1, i - 1) \o SubSeq(l, i + 1, Len(l))

\* render_main_tab: the loop over the product checkboxes from product i on;
\* current_selection is the model's own list, changed in place
RECURSIVE checkbox_loop(_, _, _)
checkbox_loop(current_selection, checks, i) ==
    IF i > Len(available_baselines) THEN current_selection
    ELSE LET baseline == available_baselines[i]
             selected == checks[baseline]
             present == InSeq(Str(baseline), current_selection)
         IN  IF selected /\ ~present
             THEN checkbox_loop(Append(current_selection, Str(baseline)), checks, i + 1)
             ELSE IF ~selected /\ present
             THEN checkbox_loop(ListRemove(current_selection, Str(baseline)), checks, i + 1)
             ELSE checkbox_loop(current_selection, checks, i + 1)

\* render_main_tab, as far as it writes the model's 'baselines'
render_main_tab(data, ws) ==
    DictSet(data, "baselines",
            List(checkbox_loop(GetOr(data, "baselines", List(<<>>)).l, ws.baseline, 1)))

\* the omit and annotate tabs: the policies of the selected products
shown_policies(data) ==
    LET selected_baselines == GetOr(data, "baselines", List(<<>>)).l
    IN  UNION {IF Has(available_policies, str_upper(selected_baselines[i].s))
               THEN LET ids == Get(available_policies, str_upper(selected_baselines[i].s))
                    IN  {ids[j] : j \in 1..Len(ids)}
               ELSE {} : i \in 1..Len(selected_baselines)}

\* the model key behind a tab
PolicyKey(tab) == IF tab = "omit" THEN "omitpolicy" ELSE "annotatepolicy"
\* omit_policies / annotate_policies: config_data.get(key, {})
tab_policies(data, tab) == GetOr(data, PolicyKey(tab), Map(<<>>)).m

\* ScubaConfigApp.import_configuration on the parsed document `config`
\* (a mapping, or a document that reads as empty)
import_configuration(data, ws, config) ==
    IF ~Truthy(config) THEN [config_data |-> data, widgets |-> ws]
    ELSE
    LET has(k) == Has(config.m, k)
        val(k) == Get(config.m, k)
        copy(d, k) == IF has(k) THEN DictSet(d, k, val(k)) ELSE d
        basic == copy(copy(copy(data, "orgname"), "orgunitname"), "description")
        auth == copy(copy(copy(basic, "customerid"), "subjectemail"), "credentials")
        baselines == IF val("baselines").t = "str" THEN <<val("baselines")>>
                     ELSE IF val("baselines").t # "list" THEN <<>>
                     ELSE val("baselines").l
        products == IF has("baselines") THEN DictSet(auth, "baselines", List(baselines))
                    ELSE auth
        widgets == IF has("baselines")
                   THEN [ws EXCEPT !.baseline =
                            [b \in DOMAIN ws.baseline |-> InSeq(Str(b), baselines)]]
                   ELSE ws
        outputpath == copy(products, "outputpath")
        darkmode == IF ~has("darkmode") THEN outputpath
                    ELSE IF val("darkmode").t = "str"
                    THEN DictSet(outputpath, "darkmode", Bool(lower_is_true(val("darkmode").s)))
                    ELSE DictSet(outputpath, "darkmode", Bool(Truthy(val("darkmode"))))
        quiet == IF has("quiet") THEN DictSet(darkmode, "quiet", Bool(Truthy(val("quiet"))))
                 ELSE darkmode
        section(d, k) == IF has(k) /\ val(k).t = "map" THEN DictSet(d, k, val(k)) ELSE d
        advanced == section(section(quiet, "omitpolicy"), "annotatepolicy")
        breakglass == IF ~has("breakglassaccounts") THEN advanced
                      ELSE IF val("breakglassaccounts").t = "list"
                      THEN DictSet(advanced, "breakglassaccounts", val("breakglassaccounts"))
                      ELSE IF Truthy(val("breakglassaccounts"))
                      THEN DictSet(advanced, "breakglassaccounts",
                                   List(<<val("breakglassaccounts")>>))
                      ELSE DictSet(advanced, "breakglassaccounts", List(<<>>))
    IN  [config_data |-> breakglass, widgets |-> widgets]

\* the products whose checkbox the model clicks
ToggledBaselines == {"gmail", "drive"}

\* the documents yaml.safe_load hands to import_configuration
ImportDocs ==
    { None,
      Map(<<Entry("orgname", Str("Imported Org")), Entry("darkmode", Str("True"))>>),
      Map(<<Entry("baselines", List(<<Str("gmail"), Str("gmail")>>))>>),
      Map(<<Entry("baselines", Str("bogus")), Entry("breakglassaccounts", Str("bg@example.com"))>>),
      Map(<<Entry("omitpolicy",
                  Map(<<Entry("GWS.DRIVEDOCS.1.1v0.3",
                              Map(<<Entry("rationale", Str("Not in use"))>>))>>))>>),
      Map(<<Entry("omitpolicy", Map(<<Entry("GWS.GMAIL.1.1v0.3", Map(<<>>))>>)),
            Entry("annotatepolicy", Map(<<>>))>>) }

\* what the user types into the forms
RationaleTexts == {"", "Not in use"}
ExpirationDates == {"", "2030-01-01"}
CommentTexts == {"", "In progress"}

SessionInit ==
    /\ config_data = DefaultConfigData
    /\ run_tab = NoClick
    /\ widget_state = NoWidgets
    /\ last_op = NoOp

\* a click ends in a new run of the script (st.rerun, or the end of the run the
\* click started), which draws the main tab from the widgets
Clicked == [op |-> "click", doc |-> Unset]

\* a product checkbox is clicked
ToggleBaseline(b) ==
    /\ widget_state' = [widget_state EXCEPT !.baseline[b] = ~widget_state.baseline[b]]
    /\ config_data' = render_main_tab(config_data, widget_state')
    /\ last_op' = Clicked
    /\ UNCHANGED run_tab
    /\ UNCHANGED notApp

\* "Select All"
SelectAll ==
    /\ widget_state' = [widget_state EXCEPT
                           !.baseline = [b \in DOMAIN widget_state.baseline |-> TRUE]]
    /\ config_data' =
           render_main_tab(
               DictSet(config_data, "baselines",
                       List([i \in 1..Len(available_baselines) |-> Str(available_baselines[i])])),
               widget_state')
    /\ last_op' = Clicked
    /\ UNCHANGED run_tab
    /\ UNCHANGED notApp

\* "Clear All"
ClearAll ==
    /\ widget_state' = [widget_state EXCEPT
                           !.baseline = [b \in DOMAIN widget_state.baseline |-> FALSE]]
    /\ config_data' = render_main_tab(DictSet(config_data, "baselines", List(<<>>)),
                                      widget_state')
    /\ last_op' = Clicked
    /\ UNCHANGED run_tab
    /\ UNCHANGED notApp

\* run: "Import" is clicked on an uploaded file
ImportConfiguration(config) ==
    /\ widget_state' = import_configuration(config_data, widget_state, config).widgets
    /\ config_data' =
           render_main_tab(import_configuration(config_data, widget_state, config).config_data,
                           widget_state')
    /\ last_op' = [op |-> "import", doc |-> config]
    /\ UNCHANGED run_tab
    /\ UNCHANGED notApp

\* "Omit" / "Annotate": shown for a policy that has no entry
ToggleForm(tab, p) ==
    /\ p \in shown_policies(config_data)
    /\ ~Has(tab_policies(config_data, tab), p)
    /\ widget_state' = [widget_state EXCEPT !.expand[tab][p] = ~widget_state.expand[tab][p],
                                            !.editing[tab][p] = FALSE]
    /\ config_data' = render_main_tab(config_data, widget_state')
    /\ last_op' = Clicked
    /\ UNCHANGED run_tab
    /\ UNCHANGED notApp

\* "Edit": shown for a policy that has an entry
EditClicked(tab, p) ==
    /\ p \in shown_policies(config_data)
    /\ Has(tab_policies(config_data, tab), p)
    /\ widget_state' = [widget_state EXCEPT !.expand[tab][p] = TRUE,
                                            !.editing[tab][p] = TRUE]
    /\ config_data' = render_main_tab(config_data, widget_state')
    /\ last_op' = Clicked
    /\ UNCHANGED run_tab
    /\ UNCHANGED notApp

\* "Remove": shown for a policy that has an entry
RemoveClicked(tab, p) ==
    /\ p \in shown_policies(config_data)
    /\ Has(tab_policies(config_data, tab), p)
    /\ config_data' =
           render_main_tab(DictSet(config_data, PolicyKey(tab),
                                   Map(DictDel(tab_policies(config_data, tab), p))),
                           widget_state)
    /\ last_op' = Clicked
    /\ UNCHANGED <<widget_state, run_tab>>
    /\ UNCHANGED notApp

\* the form is closed and out of editing mode
FormClosed(ws, tab, p) ==
    [ws EXCEPT !.expand[tab][p] = FALSE, !.editing[tab][p] = FALSE]

\* the save button of an open form stores new_config when it is not empty
SaveClicked(tab, p, new_config) ==
    /\ p \in shown_policies(config_data)
    /\ widget_state.expand[tab][p]
    /\ widget_state' = IF new_config # <<>> THEN FormClosed(widget_state, tab, p)
                       ELSE widget_state
    /\ config_data' =
           render_main_tab(
               IF new_config # <<>>
               THEN DictSet(config_data, PolicyKey(tab),
                            Map(DictSet(tab_policies(config_data, tab), p, Map(new_config))))
               ELSE config_data,
               widget_state')
    /\ last_op' = Clicked
    /\ UNCHANGED run_tab
    /\ UNCHANGED notApp

\* "Save Omission" / "Update Omission": nothing is stored without a rationale
SaveOmission(p, rationale, expiration) ==
    /\ SaveClicked("omit", p,
                   IF rationale # ""
                   THEN <<Entry("rationale", Str(rationale))>>
                        \o (IF expiration # "" THEN <<Entry("expiration", Str(expiration))>>
                            ELSE <<>>)
                   ELSE <<>>)

\* "Save Annotation" / "Update Annotation": nothing is stored when every field
\* is empty
SaveAnnotation(p, comment, incorrect_result) ==
    /\ SaveClicked("annotate", p,
                   (IF comment # "" THEN <<Entry("comment", Str(comment))>> ELSE <<>>)
                   \o (IF incorrect_result THEN <<Entry("incorrectresult", Bool(TRUE))>>
                       ELSE <<>>))

\* "Cancel" in the open form
CancelClicked(tab, p) ==
    /\ p \in shown_policies(config_data)
    /\ widget_state.expand[tab][p]
    /\ widget_state' = FormClosed(widget_state, tab, p)
    /\ config_data' = render_main_tab(config_data, widget_state')
    /\ last_op' = Clicked
    /\ UNCHANGED run_tab
    /\ UNCHANGED notApp

SessionNext ==
    \/ \E b \in ToggledBaselines : ToggleBaseline(b)
    \/ SelectAll
    \/ ClearAll
    \/ \E config \in ImportDocs : ImportConfiguration(config)
    \/ \E tab \in PolicyTabs : \E p \in PolicyCatalog : ToggleForm(tab, p)
    \/ \E tab \in PolicyTabs : \E p \in PolicyCatalog : EditClicked(tab, p)
    \/ \E tab \in PolicyTabs : \E p \in PolicyCatalog : RemoveClicked(tab, p)
    \/ \E p \in PolicyCatalog : \E r \in RationaleTexts : \E x \in ExpirationDates :
           SaveOmission(p, r, x)
    \/ \E p \in PolicyCatalog : \E c \in CommentTexts : \E b \in BOOLEAN :
           SaveAnnotation(p, c, b)
    \/ \E tab \in PolicyTabs : \E p \in PolicyCatalog : CancelClicked(tab, p)

(***************************************************************************)
(* ConfigGenerator._generate_commented_yaml                                *)
(***************************************************************************)
\* str(value) inside an f-string; the repr of a collection is not spelled out
FormatValue(v) ==
    CASE v.t = "bool" -> IF v = Bool(TRUE) THEN "True" ELSE "False"
      [] v.t = "none" -> "None"
      [] v.t = "list" -> "[...]"
      [] v.t = "map" -> "{...}"
      [] OTHER -> v.s

\* f"{key}: {value}" and f"  - {item}": the value is written as it is, unquoted
KeyLine(d, k) == Line(0, "key_scalar", k, "plain", FormatValue(Get(d, k)))
ItemLines(d, k) ==
    LET items == Items(Get(d, k)) IN
    <<Line(0, "key_open", k, "plain", "")>> \o
    [i \in 1..Len(items) |-> Line(1, "item", "", "plain", FormatValue(items[i]))]
\* "# Generated on: <now>"
GeneratedOn(now) == Line(0, "comment", "Generated on", "plain", now)

advanced_keys == <<"breakglassaccounts", "tenant", "opapath">>

generate_commented_yaml(config, now) ==
    LET scalar_group(k, comment) ==
            IF Has(config, k) THEN <<CommentLine(comment), KeyLine(config, k), BlankLine>>
            ELSE <<>>
        list_group(k, comment) ==
            IF Has(config, k) THEN <<CommentLine(comment)>> \o ItemLines(config, k) \o <<BlankLine>>
            ELSE <<>>
        advanced_config == SelectSeq(config, LAMBDA en : InSeq(en.k, advanced_keys))
    IN  << CommentLine("ScubaGoggles Configuration File"),
           GeneratedOn(now),
           CommentLine("https://github.com/cisagov/ScubaGoggles"),
           BlankLine >>
        \o (IF Has(config, "credentials")
            THEN scalar_group("credentials", "Authentication: Service Account Credentials")
            ELSE scalar_group("accesstoken", "Authentication: Access Token"))
        \o list_group("baselines", "Baselines to assess")
        \o scalar_group("outputpath", "Output directory for reports")
        \o scalar_group("darkmode", "Report display options")
        \o (IF advanced_config # <<>>
            THEN <<CommentLine("Advanced Options")>>
                 \o list_group("breakglassaccounts",
                               "Emergency access accounts to exclude from certain checks")
                 \o scalar_group("tenant", "Tenant domain")
                 \o scalar_group("opapath", "Custom OPA executable path")
            ELSE <<>>)

\* mutant: the comments are generated from the mapping as given, not cleaned
generate_yaml_config_commented_raw(d, now) == generate_commented_yaml(d, now)

\* ConfigGenerator.generate_yaml_config with include_comments = True
generate_yaml_config_commented(d, now) ==
    generate_commented_yaml(clean_config_dict(d), now)

\* create_sample_configs: the three sample mappings
BasicSample ==
    << Entry("credentials", Str("/path/to/service-account.json")),
       Entry("baselines", List(<<Str("gmail"), Str("drive"), Str("calendar")>>)),
       Entry("outputpath", Str("./reports")) >>
AdvancedSample ==
    << Entry("credentials", Str("/path/to/service-account.json")),
       Entry("baselines",
             List(<<Str("gmail"), Str("drive"), Str("calendar"), Str("meet"), Str("groups")>>)),
       Entry("outputpath", Str("./compliance-reports")),
       Entry("darkmode", Str("true")),
       Entry("breakglassaccounts", List(<<Str(UuidSample), Str(UuidSample2)>>)),
       Entry("tenant", Str("example.com")) >>
TokenSample ==
    << Entry("accesstoken", Str("your-access-token-here")),
       Entry("baselines", List(<<Str("gmail"), Str("drive")>>)),
       Entry("outputpath", Str("./reports")) >>

\* the fields of a document and the values they are set to
CommentKeys ==
    {"credentials", "accesstoken", "baselines", "outputpath", "darkmode",
     "breakglassaccounts", "tenant", "opapath", "orgname", "omitpolicy"}
CommentValues(k) ==
    CASE k = "credentials" -> {Str(""), Str("sa.json")}
      [] k = "accesstoken" -> {Str(""), Str(Tok50)}
      [] k = "baselines" -> {List(<<>>), List(<<Str("gmail"), Str("drive")>>)}
      [] k = "outputpath" -> {Str("./"), Str("./reports")}
      [] k = "darkmode" -> {Bool(FALSE), Bool(TRUE), Str("false"), Str("true")}
      [] k = "breakglassaccounts" -> {List(<<>>), List(<<Str(UuidV1)>>)}
      [] k = "tenant" -> {Str(""), Str("example.com")}
      [] k = "opapath" -> {None, Str("/usr/bin/opa")}
      [] k = "orgname" -> {Str("Example Org")}
      [] k = "omitpolicy" -> {Map(<<>>), Map(<<Entry("GWS.A", OmitEntry)>>)}
\* datetime.now().strftime('%Y-%m-%d %H:%M:%S')
Timestamps == {"2025-01-01 00:00:00", "2025-12-31 23:59:59"}

CommentInit ==
    /\ config_dict \in {<<>>, BasicSample, AdvancedSample, TokenSample}
    /\ cleaned = <<>>
    /\ recleaned = <<>>
    /\ yaml_text = <<>>
    /\ config_file = NoFile
    /\ loaded = Unset
    /\ gpc = "edit"

\* a field of the mapping is set or changed (config[k] = v)
SetEntry(k, v) ==
    /\ gpc = "edit"
    /\ Has(config_dict, k) \/ Len(config_dict) < MaxEntries
    /\ config_dict' = DictSet(config_dict, k, v)
    /\ UNCHANGED <<cleaned, recleaned, yaml_text, config_file, loaded, gpc>>
    /\ UNCHANGED notGen

GenerateCommentedYaml(now) ==
    /\ gpc = "edit"
    /\ cleaned' = clean_config_dict(config_dict)
    /\ yaml_text' = generate_yaml_config_commented(config_dict, now)
    /\ gpc' = "commented"
    /\ UNCHANGED <<config_dict, recleaned, config_file, loaded>>
    /\ UNCHANGED notGen

\* the commented text is read back (yaml.safe_load)
ParseCommentedYaml ==
    /\ gpc = "commented"
    /\ loaded' = yaml_safe_load(yaml_text)
    /\ gpc' = "parsed"
    /\ UNCHANGED <<config_dict, cleaned, recleaned, yaml_text, config_file>>
    /\ UNCHANGED notGen

CommentNext ==
    \/ \E k \in CommentKeys : \E v \in CommentValues(k) : SetEntry(k, v)
    \/ \E now \in Timestamps : GenerateCommentedYaml(now)
    \/ ParseCommentedYaml

(***************************************************************************)
(* ScubaRunner.  One call of run_assessment on the main thread, the child   *)
(* process, and the two reader threads.  A step is one atomic piece of one  *)
(* of them: a write of the child, a readline of a reader thread, a          *)
(* get_nowait of the monitor, ...                                           *)
(***************************************************************************)
\* the most lines the child writes to standard output / standard error
MaxOutLines == 2
MaxErrLines == 1

\* the lines the child may write, as readline returns them
OutputLines == {"Loading baselines\n", "Authenticating\n", "Fetching data\n",
                "Running Policy checks\n", "Generating report\n", "Done\n"}
ErrorLines == {"warning: slow\n"}
ExitCodes == {0, 1}

SeqsUpTo(S, n) == UNION {[1..k -> S] : k \in 0..n}

\* _monitor_progress: progress_indicators
progress_indicators ==
    <<"Initializing", "Loading baselines", "Connecting to APIs", "Gathering data",
      "Running policy checks", "Generating reports">>

UpperLetters == <<"A", "B", "C", "D", "E", "F", "G", "H", "I", "J", "K", "L", "M",
                  "N", "O", "P", "Q", "R", "S", "T", "U", "V", "W", "X", "Y", "Z">>
LowerLetters == <<"a", "b", "c", "d", "e", "f", "g", "h", "i", "j", "k", "l", "m",
                  "n", "o", "p", "q", "r", "s", "t", "u", "v", "w", "x", "y", "z">>
\* str.lower
str_lower(cs) ==
    [i \in 1..Len(cs) |->
        IF InSeq(cs[i], UpperLetters)
        THEN LowerLetters[CHOOSE j \in 1..Len(UpperLetters) : UpperLetters[j] = cs[i]]
        ELSE cs[i]]

\* kw in cs
Contains(cs, kw) == \E i \in 0..(Len(cs) - Len(kw)) : SubSeq(cs, i + 1, i + Len(kw)) = kw

\* the keyword chain with its guards dropped: the step is set to the stage of
\* the keyword
monitor_step_unguarded(current_step, output) ==
    LET has(kw) == Contains(str_lower(output), Chars(kw))
    IN  IF has("baseline") THEN 1
        ELSE IF has("connect") \/ has("auth") THEN 2
        ELSE IF has("gather") \/ has("fetch") THEN 3
        ELSE IF has("policy") \/ has("check") THEN 4
        ELSE IF has("report") \/ has("generate") THEN 5
        ELSE current_step

\* _monitor_progress: current_step after one line of output
monitor_step(current_step, output) ==
    LET has(kw) == Contains(str_lower(output), Chars(kw))
        at_least(k) == IF current_step < k THEN k ELSE current_step
    IN  IF has("baseline") THEN at_least(1)
        ELSE IF has("connect") \/ has("auth") THEN at_least(2)
        ELSE IF has("gather") \/ has("fetch") THEN at_least(3)
        ELSE IF has("policy") \/ has("check") THEN at_least(4)
        ELSE IF has("report") \/ has("generate") THEN at_least(5)
        ELSE current_step

Streams == {"stdout", "stderr"}
\* the queue a reader thread fills from its stream
QueueOf(stream) == IF stream = "stdout" THEN "output_queue" ELSE "error_queue"

Call(by, text) == [by |-> by, text |-> text]

\* the finally clause of run_assessment: the file goes if config_path is bound
unlink_config(tmp) == IF tmp.bound THEN [tmp EXCEPT !.exists = FALSE] ELSE tmp

RunIdle ==
    /\ rpc = "idle"
    /\ tmp_config = [exists |-> FALSE, bound |-> FALSE]
    /\ process = [state |-> "none", code |-> 0,
                  script |-> [st \in Streams |-> <<>>]]
    /\ pipes = [unread |-> [st \in Streams |-> <<>>], wrote |-> [st \in Streams |-> <<>>]]
    /\ queues = [output_queue |-> <<>>, error_queue |-> <<>>]
    /\ progress = [callback |-> FALSE, current_step |-> 0, calls |-> <<>>]
    /\ outcome = [returned |-> FALSE, value |-> FALSE,
                  got_output |-> FALSE, output |-> <<>>,
                  got_errors |-> FALSE, errors |-> <<>>]

\* ScubaRunner.__init__
RunInit == RunIdle

\* run_assessment up to the end of the with block: the temporary file is made
\* and yaml.dump writes the document into it, or raises
RunAssessment(serializable, callback) ==
    /\ rpc = "idle"
    /\ progress' = [progress EXCEPT !.callback = callback]
    /\ IF serializable
       THEN /\ tmp_config' = [exists |-> TRUE, bound |-> TRUE]
            /\ rpc' = "dumped"
            /\ UNCHANGED outcome
       ELSE /\ tmp_config' = unlink_config([exists |-> TRUE, bound |-> FALSE])
            /\ rpc' = "returned"
            /\ outcome' = [outcome EXCEPT !.returned = TRUE, !.value = FALSE]
    /\ UNCHANGED <<process, pipes, queues>>
    /\ UNCHANGED notRun

\* run_assessment: the first callback, Popen and the start of the two threads
StartProcess(starts, out, err, code) ==
    /\ rpc = "dumped"
    /\ progress' = IF progress.callback
                   THEN [progress EXCEPT !.calls =
                            Append(@, Call("run_assessment",
                                           "Starting ScubaGoggles assessment..."))]
                   ELSE progress
    /\ IF starts
       THEN /\ process' = [state |-> "running", code |-> code,
                           script |-> [st \in Streams |-> IF st = "stdout" THEN out ELSE err]]
            /\ rpc' = IF progress.callback THEN "poll" ELSE "wait"
            /\ UNCHANGED <<tmp_config, outcome>>
       ELSE /\ tmp_config' = unlink_config(tmp_config)
            /\ rpc' = "returned"
            /\ outcome' = [outcome EXCEPT !.returned = TRUE, !.value = FALSE]
            /\ UNCHANGED process
    /\ UNCHANGED <<pipes, queues>>
    /\ UNCHANGED notRun

\* the child writes its next line to a stream
ChildWrite(stream) ==
    /\ process.state = "running"
    /\ process.script[stream] # <<>>
    /\ process' = [process EXCEPT !.script[stream] = Tail(@)]
    /\ pipes' = [pipes EXCEPT !.unread[stream] = Append(@, Head(process.script[stream])),
                              !.wrote[stream] = Append(@, Head(process.script[stream]))]
    /\ UNCHANGED <<rpc, tmp_config, queues, progress, outcome>>
    /\ UNCHANGED notRun

\* the child has written everything and exits
ChildExit ==
    /\ process.state = "running"
    /\ \A st \in Streams : process.script[st] = <<>>
    /\ process' = [process EXCEPT !.state = "exited"]
    /\ UNCHANGED <<rpc, tmp_config, pipes, queues, progress, outcome>>
    /\ UNCHANGED notRun

\* _read_output: one readline of a reader thread, put on its queue stripped
ReadOutput(stream) ==
    /\ pipes.unread[stream] # <<>>
    /\ pipes' = [pipes EXCEPT !.unread[stream] = Tail(@)]
    /\ queues' = [queues EXCEPT ![QueueOf(stream)] =
                     Append(@, Strip(Chars(Head(pipes.unread[stream]))))]
    /\ UNCHANGED <<rpc, tmp_config, process, progress, outcome>>
    /\ UNCHANGED notRun

\* _monitor_progress: the test of the while loop
MonitorPoll ==
    /\ rpc = "poll"
    /\ rpc' = IF process.state = "running" THEN "drain" ELSE "wait"
    /\ UNCHANGED <<tmp_config, process, pipes, queues, progress, outcome>>
    /\ UNCHANGED notRun

\* _monitor_progress: one get_nowait of the inner loop; on queue.Empty the
\* monitor sleeps and tests the while loop again
MonitorGet ==
    /\ rpc = "drain"
    /\ IF queues.output_queue # <<>>
       THEN LET current_step == monitor_step(progress.current_step,
                                             Head(queues.output_queue))
            IN  /\ queues' = [queues EXCEPT !.output_queue = Tail(@)]
                /\ progress' =
                       [progress EXCEPT
                           !.current_step = current_step,
                           !.calls = IF current_step < Len(progress_indicators)
                                     THEN Append(@, Call("_monitor_progress",
                                                         progress_indicators[current_step + 1]))
                                     ELSE @]
                /\ UNCHANGED rpc
       ELSE /\ rpc' = "poll"
            /\ UNCHANGED <<queues, progress>>
    /\ UNCHANGED <<tmp_config, process, pipes, outcome>>
    /\ UNCHANGED notRun

\* run_assessment: process.wait() returns, the result is returned and the
\* finally clause removes the temporary file
WaitReturns ==
    /\ rpc = "wait"
    /\ process.state = "exited"
    /\ tmp_config' = unlink_config(tmp_config)
    /\ outcome' = [outcome EXCEPT !.returned = TRUE, !.value = (process.code = 0)]
    /\ rpc' = "returned"
    /\ UNCHANGED <<process, pipes, queues, progress>>
    /\ UNCHANGED notRun

\* get_output after run_assessment has returned
GetOutput ==
    /\ rpc = "returned"
    /\ ~outcome.got_output
    /\ outcome' = [outcome EXCEPT !.got_output = TRUE, !.output = queues.output_queue]
    /\ queues' = [queues EXCEPT !.output_queue = <<>>]
    /\ UNCHANGED <<rpc, tmp_config, process, pipes, progress>>
    /\ UNCHANGED notRun

\* get_errors after run_assessment has returned
GetErrors ==
    /\ rpc = "returned"
    /\ ~outcome.got_errors
    /\ outcome' = [outcome EXCEPT !.got_errors = TRUE, !.errors = queues.error_queue]
    /\ queues' = [queues EXCEPT !.error_queue = <<>>]
    /\ UNCHANGED <<rpc, tmp_config, process, pipes, progress>>
    /\ UNCHANGED notRun

RunNext ==
    \/ \E serializable \in BOOLEAN : \E callback \in BOOLEAN :
           RunAssessment(serializable, callback)
    \/ \E starts \in BOOLEAN : \E out \in SeqsUpTo(OutputLines, MaxOutLines) :
       \E err \in SeqsUpTo(ErrorLines, MaxErrLines) : \E code \in ExitCodes :
           StartProcess(starts, out, err, code)
    \/ \E stream \in Streams : ChildWrite(stream)
    \/ ChildExit
    \/ \E stream \in Streams : ReadOutput(stream)
    \/ MonitorPoll
    \/ MonitorGet
    \/ WaitReturns
    \/ GetOutput
    \/ GetErrors

(***************************************************************************)
(* Specifications: one per component; the other components stay idle      *)
(***************************************************************************)
InitGen == GenInit /\ MergeIdle /\ ValIdle /\ ScanIdle /\ AppIdle /\ RunIdle
SpecGen == InitGen /\ [][GenNext]_vars

InitMerge == MergeInit /\ GenIdle /\ ValIdle /\ ScanIdle /\ AppIdle /\ RunIdle
SpecMerge == InitMerge /\ [][MergeNext]_vars

InitValidate == ValInit /\ GenIdle /\ MergeIdle /\ ScanIdle /\ AppIdle /\ RunIdle
SpecValidate == InitValidate /\ [][ValNext]_vars

InitLoad == LoadInit /\ MergeIdle /\ ValIdle /\ ScanIdle /\ AppIdle /\ RunIdle
SpecLoad == InitLoad /\ [][LoadNext]_vars

InitComment == CommentInit /\ MergeIdle /\ ValIdle /\ ScanIdle /\ AppIdle /\ RunIdle
SpecComment == InitComment /\ [][CommentNext]_vars

InitField == FieldInit /\ GenIdle /\ MergeIdle /\ ScanIdle /\ AppIdle /\ RunIdle
SpecField == InitField /\ [][FieldNext]_vars

InitScan == ScanInit /\ GenIdle /\ MergeIdle /\ ValIdle /\ AppIdle /\ RunIdle
SpecScan == InitScan /\ [][ScanNext]_vars

InitRun == RunInit /\ GenIdle /\ MergeIdle /\ ValIdle /\ ScanIdle /\ AppIdle
SpecRun == InitRun /\ [][RunNext]_vars

InitSession == SessionInit /\ GenIdle /\ MergeIdle /\ ValIdle /\ ScanIdle /\ RunIdle
SpecSession == InitSession /\ [][SessionNext]_vars

InitApp == AppInit /\ GenIdle /\ MergeIdle /\ ValIdle /\ ScanIdle /\ RunIdle
SpecApp == InitApp /\ [][AppNext]_vars

(***************************************************************************)
(* Claims about the generator                                              *)
(***************************************************************************)
EmptyValues == {None, Str(""), List(<<>>)}
Dropped(k, v) ==
    \/ v \in EmptyValues
    \/ k = "outputpath" /\ v \in {Str("./"), Str(".")}
    \/ k = "darkmode" /\ v = Str("false")

C2_NoEmptyNoFalseFlag ==
    gpc # "edit" =>
        \A i \in 1..Len(cleaned) :
            /\ cleaned[i].v \notin EmptyValues
            /\ ~(cleaned[i].k \in {"darkmode", "quiet"} /\ cleaned[i].v = Bool(FALSE))

\* C3: cleaning is idempotent: cleaning the cleaned mapping returns it unchanged.
C3_Idempotent ==
    gpc \notin {"edit", "cleaned"} => recleaned = cleaned

C3_Witness ==
    /\ gpc = "recleaned"
    /\ Len(config_dict) = 2
    /\ Len(cleaned) = 1
    /\ recleaned = cleaned

\* C4: loading the text generate_yaml_config(x, include_comments=False) wrote
\* yields a mapping deep-equal to clean_config_dict(x).
C4_RoundTrip ==
    gpc = "loaded" => DeepEq(loaded, Map(cleaned))

C4_Witness ==
    /\ gpc = "loaded"
    /\ Has(cleaned, "darkmode") /\ Get(cleaned, "darkmode") = Str("true")
    /\ Has(cleaned, "omitpolicy") /\ Get(cleaned, "omitpolicy") = Map(<<Entry("GWS.A", OmitEntry)>>)
    /\ DeepEq(loaded, Map(cleaned))

\* C16: load_config_file returns the YAML decoding when it succeeds and the
\* JSON decoding only when YAML decoding fails; it returns None exactly when
\* the file is missing, unreadable or fails both decodings, and any other
\* value it returns is a mapping.
C16_LoadContract ==
    gpc = "read" =>
        LET readable == config_file.exists /\ config_file.readable
            y == yaml_safe_load(config_file.content)
            j == json_loads(config_file.content)
        IN  /\ (readable /\ y # ParseError) => loaded = y
            /\ (readable /\ y = ParseError /\ j # ParseError) => loaded = j
            /\ loaded = None <=> (~readable \/ (y = ParseError /\ j = ParseError))
            /\ loaded # None => loaded.t = "map"

\* the order in which the commented form writes its fields
FixedOrder ==
    <<"credentials", "accesstoken", "baselines", "outputpath", "darkmode",
      "breakglassaccounts", "tenant", "opapath">>
OrderIndex(k) == CHOOSE i \in 1..Len(FixedOrder) : FixedOrder[i] = k
\* the fields a comment line belongs to
GroupOf(comment) ==
    CASE comment = "Authentication: Service Account Credentials" -> {"credentials"}
      [] comment = "Authentication: Access Token" -> {"accesstoken"}
      [] comment = "Baselines to assess" -> {"baselines"}
      [] comment = "Output directory for reports" -> {"outputpath"}
      [] comment = "Report display options" -> {"darkmode"}
      [] comment = "Advanced Options" -> {"breakglassaccounts", "tenant", "opapath"}
      [] comment = "Emergency access accounts to exclude from certain checks" ->
           {"breakglassaccounts"}
      [] comment = "Tenant domain" -> {"tenant"}
      [] comment = "Custom OPA executable path" -> {"opapath"}
      [] OTHER -> {}
IsKeyLine(ln) == ln.kind \in {"key_scalar", "key_open"}

\* C19: the commented form starts with the banner and then writes the
\* fields in the order credentials or accesstoken, baselines, outputpath,
\* darkmode, breakglassaccounts, tenant, opapath, each under its comment;
\* every field of the cleaned document is written (accesstoken only
\* without credentials), and no key line and no comment line is written
\* for a field that the cleaned document does not hold.
C19_CommentedGroups ==
    gpc = "commented" =>
        /\ Len(yaml_text) >= 4
        /\ yaml_text[1] = CommentLine("ScubaGoggles Configuration File")
        /\ yaml_text[2].kind = "comment" /\ yaml_text[2].text \in Timestamps
        /\ yaml_text[3] = CommentLine("https://github.com/cisagov/ScubaGoggles")
        /\ yaml_text[4] = BlankLine
        /\ LET body == SubSeq(yaml_text, 5, Len(yaml_text))
               keys == SelectSeq(body, IsKeyLine)
           IN  /\ \A i \in 1..Len(keys) : InSeq(keys[i].key, FixedOrder)
               /\ \A i, j \in 1..Len(keys) :
                      i < j => OrderIndex(keys[i].key) < OrderIndex(keys[j].key)
               /\ \A i \in 1..Len(keys) : Has(cleaned, keys[i].key)
               /\ \A i \in 1..Len(FixedOrder) :
                      ( /\ Has(cleaned, FixedOrder[i])
                        /\ ~(FixedOrder[i] = "accesstoken" /\ Has(cleaned, "credentials")) )
                      => \E j \in 1..Len(keys) : keys[j].key = FixedOrder[i]
               /\ \A i \in 1..Len(body) :
                      body[i].kind = "comment" =>
                          \E k \in GroupOf(body[i].text) : Has(cleaned, k)
               /\ \A i \in 1..Len(body) :
                      IsKeyLine(body[i]) =>
                          /\ i > 1 /\ body[i - 1].kind = "comment"
                          /\ body[i].key \in GroupOf(body[i - 1].text)

\* the 'advanced' sample with its tenant emptied: the tenant group is gone,
\* the break-glass group stays under Advanced Options
C19_Witness ==
    /\ gpc = "commented"
    /\ Keys(config_dict) = Keys(AdvancedSample)
    /\ Get(config_dict, "tenant") = Str("")
    /\ ~Has(cleaned, "tenant") /\ Has(cleaned, "breakglassaccounts")
    /\ InSeq(CommentLine("Advanced Options"), yaml_text)
    /\ ~InSeq(CommentLine("Tenant domain"), yaml_text)

\* C28: parsing the commented form of a document yields the same mapping as
\* parsing its uncommented form, which is clean_config_dict of the document:
\* no field dropped, no value changed in type.
C28_SameDocument ==
    gpc = "parsed" =>
        /\ loaded = yaml_safe_load(generate_yaml_config(config_dict))
        /\ DeepEq(loaded, Map(cleaned))

(***************************************************************************)
(* Claims about merge_configs                                              *)
(***************************************************************************)
\* M is the merge of B and O (entry sequences of value trees), stated key by key
RECURSIVE IsMergeOf(_, _, _)
IsMergeOf(M, B, O) ==
    /\ Keys(M) = Keys(B) \cup Keys(O)
    /\ Len(M) = Cardinality(Keys(M))
    /\ \A k \in Keys(B) \ Keys(O) : Get(M, k) = Get(B, k)
    /\ \A k \in Keys(O) :
         IF Get(O, k).t = "map" /\ Has(B, k) /\ Get(B, k).t = "map"
         THEN Get(M, k).t = "map" /\ IsMergeOf(Get(M, k).m, Get(B, k).m, Get(O, k).m)
         ELSE Get(M, k) = Get(O, k)

\* C5: merge_configs(base, override) keeps base's value for every key absent
\* from override, merges recursively where both values are mappings, and takes
\* override's value wholesale otherwise; merging with {} gives base back.
C5_MergeResult ==
    mpc = "merged" =>
        LET B == Deref(heap_before, base_config).m
            O == Deref(heap_before, override_config).m
            M == Deref(heap, merged).m
        IN  /\ IsMergeOf(M, B, O)
            /\ (O = <<>> => DeepEq(Map(M), Map(B)))

\* {omitpolicy: {A: ..}} merged with {omitpolicy: {B: ..}} holds both A and B,
\* and a list is replaced, not concatenated
C5_Witness ==
    /\ mpc = "merged"
    /\ Deref(heap_before, base_config).m =
          <<Entry("omitpolicy", PolicyA), Entry("baselines", List(<<Str("gmail")>>))>>
    /\ Deref(heap_before, override_config).m =
          <<Entry("omitpolicy", PolicyB), Entry("baselines", List(<<Str("drive"), Str("meet")>>))>>
    /\ Keys(Get(Deref(heap, merged).m, "omitpolicy").m) = {"A", "B"}
    /\ Get(Deref(heap, merged).m, "baselines") = List(<<Str("drive"), Str("meet")>>)

\* C6: merge_configs never mutates base: base and every mapping nested in it
\* are after the call what they were before it.
C6_BaseNotMutated ==
    mpc = "merged" =>
        /\ Deref(heap, base_config) = Deref(heap_before, base_config)
        /\ \A a \in 1..Len(heap_before) : heap[a] = heap_before[a]

\* an override that merges into a mapping nested two levels inside base
C6_Witness ==
    /\ mpc = "merged"
    /\ Deref(heap_before, base_config).m = <<Entry("omitpolicy", PolicyA)>>
    /\ Deref(heap_before, override_config).m = <<Entry("omitpolicy", PolicyA2)>>
    /\ Keys(Get(Get(Deref(heap, merged).m, "omitpolicy").m, "A").m) = {"rationale", "expiration"}
    /\ Deref(heap, base_config).m = <<Entry("omitpolicy", PolicyA)>>

(***************************************************************************)
(* Claims about validate_complete_config                                   *)
(***************************************************************************)
\* the check a message comes from, by the text the message starts with
CheckOf(msg) ==
    CASE msg[1] \in {"Either credentials file or access token is required",
                     "Credentials validation: ", "Access token validation: "} -> 1
      [] msg[1] = "Baseline validation: " -> 2
      [] msg[1] = "Output path validation: " -> 3
      [] msg[1] = "Break glass accounts validation: " -> 4
      [] msg[1] = "Tenant domain validation: " -> 5
      [] OTHER -> 0

\* does check c apply to document d and fail, by the field validators
Fails(c, d, fs, unlink_ok) ==
    LET creds == GetOr(d, "credentials", None)
        token == GetOr(d, "accesstoken", None)
        out == GetOr(d, "outputpath", None)
        bg == GetOr(d, "breakglassaccounts", List(<<>>))
        tenant == GetOr(d, "tenant", None)
    IN  CASE c = 1 -> IF Truthy(creds) THEN ~validate_credentials_file(creds).ok
                      ELSE IF Truthy(token) THEN ~validate_access_token(token).ok
                      ELSE TRUE
          [] c = 2 -> ~validate_baselines(GetOr(d, "baselines", List(<<>>)),
                                          AvailableBaselines).ok
          [] c = 3 -> Truthy(out) /\ ~validate_output_path(out, fs, unlink_ok).res.ok
          [] c = 4 -> Truthy(bg) /\ ~validate_break_glass_accounts(bg).ok
          [] c = 5 -> Truthy(tenant) /\ ~validate_tenant_domain(tenant).ok

Returned == vpc = "validated" /\ ~vresult.raised

\* C7: the checks run in the order authentication, baselines, output path,
\* break-glass accounts, tenant; a failing check does not suppress a later
\* one; each failing check appends exactly one message; the list is in
\* evaluation order; ok iff the list is empty.
C7_OrderedComplete ==
    Returned =>
        LET errors == vresult.errors IN
        /\ \A i \in 1..Len(errors) : CheckOf(errors[i]) \in 1..5
        /\ \A i, j \in 1..Len(errors) : i < j => CheckOf(errors[i]) < CheckOf(errors[j])
        /\ \A c \in 1..5 :
              (\E i \in 1..Len(errors) : CheckOf(errors[i]) = c)
                  <=> Fails(c, vconfig.m, vresult.fs_before, vresult.unlink_ok)
        /\ vresult.ok <=> errors = <<>>

\* all five checks fail in one call, and the five messages come in order
C7_Witness ==
    /\ Returned
    /\ Len(vresult.errors) = 5
    /\ \A c \in 1..5 : CheckOf(vresult.errors[c]) = c
    /\ ~vresult.ok

MissingAuthEmptyBaselines ==
    /\ vconfig.t = "map"
    /\ ~Has(vconfig.m, "credentials")
    /\ ~Has(vconfig.m, "accesstoken")
    /\ Has(vconfig.m, "baselines") /\ Get(vconfig.m, "baselines") = List(<<>>)
AuthMessage == <<"Either credentials file or access token is required">>
BaselineMessage == <<"Baseline validation: ", "At least one baseline must be selected">>

C9_TokenAlwaysValidated ==
    Returned =>
        LET token == GetOr(vconfig.m, "accesstoken", None) IN
        (Truthy(token) /\ ~validate_access_token(token).raised
                       /\ ~validate_access_token(token).ok)
            => \E i \in 1..Len(vresult.errors) :
                  vresult.errors[i][1] = "Access token validation: "

\* C10: no validator call raises: validate_complete_config and every field
\* validator return their result for every document value.
C10_NeverRaises ==
    vpc \in {"validated", "field"} => ~vresult.raised

(***************************************************************************)
(* Claims about the field validators                                       *)
(***************************************************************************)
\* the value of the one field of the document
FieldArg == vconfig.m[1].v
\* the message a field validator returned, <<>> for None
FieldMsg == IF vresult.errors = <<>> THEN <<>> ELSE vresult.errors[1]

DecodedMapping(path) ==
    LET f == CredFile(path) IN
    f.exists /\ JsonSuffix(path) /\ f.readable /\ f.json /\ f.data.t = "map"
HoldsAllFields(path) ==
    \A i \in 1..Len(RequiredFields) : Has(CredFile(path).data.m, RequiredFields[i])

\* C11: validate_credentials_file passes iff the path is non-empty, the file
\* exists, is a JSON file that decodes, holds the four fields type,
\* client_id, client_email and private_key, and has type 'service_account';
\* a file lacking private_key fails with the missing-fields message naming
\* private_key, whatever its type; a file of type 'user' holding the four
\* fields fails with the service-account message.
C11_CredentialsContract ==
    vresult.call = "credentials" =>
        LET path == FieldArg.s IN
        /\ ~vresult.raised
        /\ vresult.ok <=>
               /\ path # ""
               /\ DecodedMapping(path)
               /\ HoldsAllFields(path)
               /\ Get(CredFile(path).data.m, "type") = Str("service_account")
        /\ (DecodedMapping(path) /\ ~Has(CredFile(path).data.m, "private_key")) =>
               /\ ~vresult.ok
               /\ FieldMsg[1] = "Credentials file missing required fields: "
               /\ InSeq("private_key", Tail(FieldMsg))
        /\ ( /\ DecodedMapping(path) /\ HoldsAllFields(path)
             /\ Get(CredFile(path).data.m, "type") = Str("user") ) =>
               /\ ~vresult.ok
               /\ FieldMsg = <<"Credentials file must be for a service account">>

\* a file of type 'user' that lacks private_key was validated
C11_Witness ==
    /\ vresult.call = "credentials"
    /\ FieldArg = Str("nokey_user.json")
    /\ ~vresult.ok
    /\ InSeq("private_key", FieldMsg)

\* C12: validate_access_token returns (True, None) iff the token is
\* non-empty, at least 50 characters long and made only of characters of
\* [A-Za-z0-9._-]; otherwise it returns (False, reason), the reason chosen
\* in the order empty, too short, invalid characters.
C12_TokenContract ==
    vresult.call = "accesstoken" =>
        LET token == Chars(FieldArg.s) IN
        /\ ~vresult.raised
        /\ vresult.ok <=>
               (token # <<>> /\ Len(token) >= MinTokenLen /\ AllIn(token, TokenClass))
        /\ FieldMsg =
               IF token = <<>> THEN <<"Access token is required">>
               ELSE IF Len(token) < MinTokenLen THEN <<"Access token appears to be too short">>
               ELSE IF ~AllIn(token, TokenClass)
               THEN <<"Access token contains invalid characters">>
               ELSE <<>>

\* C13: the break-glass account identifier
\* 12345678-1234-1234-1234-123456789012, the one of the 'advanced' sample
\* configuration, is accepted by validate_break_glass_accounts.
C13_SampleAccepted ==
    ( /\ vresult.call = "breakglassaccounts"
      /\ FieldArg = List(<<Str(UuidSample)>>) ) => vresult.ok

\* the text between the hyphens
RECURSIVE SplitHyphens(_, _, _)
SplitHyphens(cs, i, cur) ==
    IF i > Len(cs) THEN <<cur>>
    ELSE IF cs[i] = "-" THEN <<cur>> \o SplitHyphens(cs, i + 1, <<>>)
    ELSE SplitHyphens(cs, i + 1, Append(cur, cs[i]))
\* five hex groups of lengths 8-4-4-4-12, the third starting with 1-5 and
\* the fourth with 8, 9, a or b, in either case
CanonicalUuid(cs) ==
    LET g == SplitHyphens(cs, 1, <<>>) IN
    /\ Len(g) = 5
    /\ <<Len(g[1]), Len(g[2]), Len(g[3]), Len(g[4]), Len(g[5])>> = <<8, 4, 4, 4, 12>>
    /\ \A i \in 1..5 : AllIn(g[i], HexDigits)
    /\ g[3][1] \in {"1", "2", "3", "4", "5"}
    /\ g[4][1] \in {"8", "9", "a", "b", "A", "B"}

C15_NoProbeLeft ==
    ( /\ vresult.call = "outputpath"
      /\ "test_write.tmp" \notin vresult.fs_before.files )
    => "test_write.tmp" \notin out_dir.files

\* C29: validate_output_path leaves every file that was in the output
\* directory before the call, whatever its name, in place, and creates
\* nothing when the parent directory does not exist.
C29_FilesKept ==
    vresult.call = "outputpath" =>
        /\ vresult.fs_before.files \subseteq out_dir.files
        /\ ~vresult.fs_before.parent => out_dir = vresult.fs_before

(***************************************************************************)
(* Claims about the policy catalog scanner                                 *)
(***************************************************************************)
\* line i of the content, trimmed
Trimmed(i) == Strip(Chars(md_lines[i]))
\* a heading of level 1, 2 or 3
SectionHeading(cs) ==
    \/ StartsWith(cs, <<"#", " ">>)
    \/ StartsWith(cs, <<"#", "#", " ">>)
    \/ StartsWith(cs, <<"#", "#", "#", " ">>)
\* line i comes after a heading of level 1 to 3, and the last such heading
\* before it is '### Policies'
UnderPolicies(i) ==
    \E j \in 1..(i - 1) :
        /\ Trimmed(j) = PoliciesHeader
        /\ \A k \in (j + 1)..(i - 1) : ~SectionHeading(Trimmed(k))
\* the identifier of a '#### GWS.' heading: the text after '#### ' up to
\* the first whitespace
HeadingId(cs) == UpToWhitespace(SubSeq(cs, 6, Len(cs)))
PolicyIds == {Chars("GWS.0001"), Chars("GWS.0002")}

\* C17: a heading of level 1, 2 or 3 other than '### Policies' ends the
\* policy section: an identifier all of whose '#### GWS.' headings come
\* after such a heading, with no '### Policies' in between, is not in the
\* result.
C17_SectionLeft ==
    \A id \in PolicyIds :
        (\A i \in 1..Len(md_lines) :
            (StartsWith(Trimmed(i), PolicyPrefix) /\ HeadingId(Trimmed(i)) = id)
                => ~UnderPolicies(i))
        => ~Has(policies, id)

\* d is cs without its trailing periods
WithoutTrailingDots(d, cs) ==
    /\ Len(d) <= Len(cs)
    /\ d = SubSeq(cs, 1, Len(d))
    /\ \A i \in (Len(d) + 1)..Len(cs) : cs[i] = "."
    /\ d = <<>> \/ d[Len(d)] # "."

\* what one line does, given that the loop is inside the policy section
CaptureStep ==
    LET line == Strip(Chars(md_lines'[Len(md_lines')])) IN
    /\ (in_policies_section /\ StartsWith(line, PolicyPrefix)) =>
           /\ current_policy_id' = HeadingId(line)
           /\ policies' = policies
    /\ ( /\ in_policies_section /\ current_policy_id # <<>>
         /\ line # <<>> /\ ~StartsWith(line, <<"#">>) ) =>
           /\ Has(policies', current_policy_id)
           /\ WithoutTrailingDots(Get(policies', current_policy_id), line)
           /\ \A i \in 1..Len(policies) :
                  policies[i].k # current_policy_id => InSeq(policies[i], policies')
           /\ Keys(policies') = Keys(policies) \cup {current_policy_id}
           /\ current_policy_id' = <<>>
    /\ (current_policy_id = <<>> \/ line = <<>> \/ StartsWith(line, <<"#">>)) =>
           policies' = policies
    /\ md_lines' = <<"### Policies", "#### GWS.0001 Example", "Do the thing.">> =>
           policies' = <<[k |-> Chars("GWS.0001"), v |-> Chars("Do the thing")]>>

\* C18: inside the policy section a '#### GWS.' heading sets the pending
\* identifier to its first whitespace-delimited token; the next non-empty
\* line that is no heading becomes the description of that identifier,
\* trailing periods stripped, overwriting an earlier entry of the same
\* identifier; capture then resets, and no line adds anything while no
\* identifier is pending.  '### Policies' / '#### GWS.0001 Example' /
\* 'Do the thing.' gives {GWS.0001: 'Do the thing'}.
C18_Capture == [][CaptureStep]_vars

\* a repeated identifier has overwritten its earlier description
C18_Witness ==
    /\ md_lines = <<"### Policies", "#### GWS.0001 Example", "Do the thing.",
                    "#### GWS.0001 Example", "  More text..  ">>
    /\ policies = <<[k |-> Chars("GWS.0001"), v |-> Chars("More text")]>>
    /\ current_policy_id = <<>>

\* line n is attributed to a '#### GWS.' heading of its own section: the
\* pending identifier is that of a heading before line n with no '### '
\* heading and no other '#### GWS.' heading in between
AttributedInSection(n, id) ==
    \E h \in 1..(n - 1) :
        /\ StartsWith(Trimmed(h), PolicyPrefix)
        /\ HeadingId(Trimmed(h)) = id
        /\ \A k \in (h + 1)..(n - 1) :
               /\ ~StartsWith(Trimmed(k), H3Prefix)
               /\ ~StartsWith(Trimmed(k), PolicyPrefix)

\* C30: a description line is attributed only to the most recent
\* '#### GWS.' heading of the same policy section: an identifier whose
\* section ended before a description line came is not carried over into a
\* later '### Policies' section.
C30_NoCarryOver ==
    [][policies' # policies => AttributedInSection(Len(md_lines) + 1, current_policy_id)]_vars

(***************************************************************************)
(* Claims about the application                                            *)
(***************************************************************************)
\* C20: when the authentication method is 'Service Account' and customerid
\* or subjectemail is empty, validate_config fails and a click on the run
\* button does not run the assessment.
C20_ServiceAccountFields ==
    ( /\ run_tab.clicked
      /\ GetOr(config_data, "auth_method", None) = Str("Service Account")
      /\ \/ ~Truthy(GetOr(config_data, "customerid", None))
         \/ ~Truthy(GetOr(config_data, "subjectemail", None)) )
    => (~run_tab.valid /\ ~run_tab.ran)


\* the policy ids an imported document names under a section
DocPolicyIds(doc, key) ==
    IF doc.t = "map" /\ Has(doc.m, key) /\ Get(doc.m, key).t = "map"
    THEN Keys(Get(doc.m, key).m)
    ELSE {}

\* C21: an import is a deep merge: every field of the model whose key is not in
\* the imported document keeps its value, and every omitpolicy / annotatepolicy
\* entry whose policy id is not in the imported document is still there.
C21_ImportMerges ==
    [][last_op'.op = "import" =>
         /\ \A k \in Keys(config_data) :
                ~(last_op'.doc.t = "map" /\ Has(last_op'.doc.m, k))
                    => /\ Has(config_data', k)
                       /\ Get(config_data', k) = Get(config_data, k)
         /\ \A tab \in PolicyTabs : \A p \in Keys(tab_policies(config_data, tab)) :
                p \notin DocPolicyIds(last_op'.doc, PolicyKey(tab))
                    => /\ Has(tab_policies(config_data', tab), p)
                       /\ Get(tab_policies(config_data', tab), p)
                              = Get(tab_policies(config_data, tab), p)]_vars

\* C22: every entry of 'baselines' is a product of the catalog, and none
\* occurs twice.
C22_BaselinesInCatalog ==
    LET baselines == Get(config_data, "baselines").l
    IN  /\ \A i \in 1..Len(baselines) :
               /\ baselines[i].t = "str"
               /\ InSeq(baselines[i].s, available_baselines)
        /\ \A i, j \in 1..Len(baselines) : baselines[i] = baselines[j] => i = j

\* C23: every entry of 'omitpolicy' carries a rationale that is not empty.
C23_RationalePresent ==
    \A p \in Keys(tab_policies(config_data, "omit")) :
        LET omit_config == Get(tab_policies(config_data, "omit"), p)
        IN  /\ omit_config.t = "map"
            /\ Has(omit_config.m, "rationale")
            /\ Truthy(Get(omit_config.m, "rationale"))

\* C27: a policy whose editing flag is set on the omit tab has an entry in
\* omitpolicy, and one whose flag is set on the annotate tab has an entry in
\* annotatepolicy.
C27_EditingHasEntry ==
    \A tab \in PolicyTabs : \A p \in PolicyCatalog :
        widget_state.editing[tab][p] => Has(tab_policies(config_data, tab), p)


(***************************************************************************)
(* Claims about the runner                                                 *)
(***************************************************************************)
\* C24: the temporary file is there while the child is started, it is gone when
\* run_assessment has returned, whatever the path, and the value returned is
\* true exactly when the child exited with code 0.
C24_TempFileRemoved ==
    /\ (process.state # "none" /\ ~outcome.returned) => tmp_config.exists
    /\ outcome.returned =>
           /\ ~tmp_config.exists
           /\ outcome.value = (process.state = "exited" /\ process.code = 0)

\* the lines as the queues hold them
Stripped(lines) == [i \in 1..Len(lines) |-> Strip(Chars(lines[i]))]

\* C25: after run_assessment has returned, get_output returns every line the
\* child wrote to standard output and get_errors every line it wrote to
\* standard error, in the order written.
C25_AllCaptured ==
    /\ (outcome.got_output /\ process.state = "exited")
           => outcome.output = Stripped(pipes.wrote["stdout"])
    /\ (outcome.got_errors /\ process.state = "exited")
           => outcome.errors = Stripped(pipes.wrote["stderr"])

\* the stages _monitor_progress has passed to the callback, in order
MonitorReports ==
    LET calls == SelectSeq(progress.calls, LAMBDA c : c.by = "_monitor_progress")
    IN  [i \in 1..Len(calls) |-> calls[i].text]
StageIndex(text) == CHOOSE i \in 1..Len(progress_indicators) : progress_indicators[i] = text

\* C26: every stage _monitor_progress reports is one of the six indicators, and
\* the stages reported never go backwards in the order of the indicators.
C26_StagesNeverGoBack ==
    /\ \A i \in 1..Len(MonitorReports) : InSeq(MonitorReports[i], progress_indicators)
    /\ \A i, j \in 1..Len(MonitorReports) :
           i < j => StageIndex(MonitorReports[i]) <= StageIndex(MonitorReports[j])

\* a line of an early stage was read after the last stage had been reported
C26_Witness ==
    /\ pipes.wrote["stdout"] = <<"Generating report\n", "Loading baselines\n">>
    /\ MonitorReports = <<"Generating reports", "Generating reports">>

====
